---- MODULE Spec2Model ----
(***************************************************************************)
(* A model of zbm (minimal-zfs-backups): the history comparator, the       *)
(* dataset planner, the transfer executor, the backup orchestrator, the    *)
(* retention engine and the compaction orchestrator.                       *)
(*                                                                         *)
(* Dataset paths are sequences of path segments, a snapshot is the record  *)
(* [dataset, name] of models.Snapshot, a history is a sequence of          *)
(* snapshots oldest first, as zfs.list_snapshots returns it.               *)
(***************************************************************************)
EXTENDS Integers, Sequences, FiniteSets, TLC

VARIABLES
    pc,             \* position of the modelled call
    \* ---- inputs and results of the pure planner functions
    src_exists,     \* answer of dataset_exists(src_dataset, src_executor)
    dst_exists,     \* answer of dataset_exists(dst_dataset, dst_executor)
    src_snaps,      \* answer of list_snapshots(src_dataset, src_executor)
    dst_snaps,      \* answer of list_snapshots(dst_dataset, dst_executor)
    common,         \* result of find_common_snapshot
    plan,           \* result of _plan_dataset
    \* ---- run_backup
    dry_run, no_confirm,
    datasets,       \* config.datasets
    plans,          \* plans, in config order
    listed,         \* per plan, the executors' answers it was computed from
    world,          \* the pools: per configured dataset, what exists and its snapshots
    queue,          \* indices (into plans) the running loop of phase 3 still has to visit
    cur,            \* index of the plan whose rollback was just done, 0 if none
    any_error, sent_count, rollback_count,
    asked,          \* number of times _confirm was called
    log,            \* commands issued to the executors in phase 3, and the prompt
    result,         \* run_backup's return value
    \* ---- send_incremental
    send_proc, recv_proc,   \* the two child processes
    pipe_open,              \* the orchestrator still holds send_proc.stdout
    send_rc, recv_rc,       \* exit codes read by wait()
    to_write,               \* chunks of the stream zfs send still has to write
    piped,                  \* chunks in the pipe between the two processes
    raised,                 \* the ExecutorError raised, or NoError
    \* ---- _snapshots_to_delete and RetentionRule.matches
    snapshots,      \* the snapshots argument, oldest first
    rules,          \* the rules argument
    to_delete,      \* result of _snapshots_to_delete
    matched,        \* result of RetentionRule.matches
    \* ---- run_compact (with dry_run, no_confirm, datasets, any_error, asked,
    \*      log and result above)
    compaction,     \* config.compaction
    dst_pool,       \* the destination pool: existing datasets, snapshot names
    delete_plans,   \* (dst_dataset, to_delete) per dataset with work to do
    deleted,        \* per delete plan, the counter deleted of phase 3
    pending         \* destroys phase 3 still has to issue, in loop order

pureVars == <<src_exists, dst_exists, src_snaps, dst_snaps, common, plan>>
backupVars == <<dry_run, no_confirm, datasets, world, plans, listed, queue, cur, any_error,
                sent_count, rollback_count, asked, log, result>>
sendVars == <<send_proc, recv_proc, pipe_open, send_rc, recv_rc, raised,
              to_write, piped>>
compactVars == <<snapshots, rules, to_delete, matched, compaction, dst_pool,
                 delete_plans, deleted, pending>>
vars == <<pc, pureVars, backupVars, sendVars, compactVars>>

----------------------------------------------------------------------------
(* Bounds *)
MaxLen == 3          \* longest history of the planner specifications
MaxRunLen == 2       \* longest history listed during a run_backup

Labels == {"a", "b", "c", "d"}
RunLabels == {"a", "b", "c"}
RunOrder == <<"a", "b", "c">>

SRC == <<"ipool", "d1">>
D1 == <<"ipool", "d1">>
D2 == <<"ipool", "d2">>

Max(S) == CHOOSE x \in S : \A y \in S : y <= x
Min(S) == CHOOSE x \in S : \A y \in S : x <= y

Range(f) == {f[i] : i \in DOMAIN f}

SeqsUpTo(S, n) == UNION {[1..k -> S] : k \in 0..n}

\* zfs names a snapshot of one dataset once: a listing never repeats a label
Distinct(h) == \A i, j \in 1..Len(h) : h[i] = h[j] => i = j

Listings(S, n) == {h \in SeqsUpTo(S, n) : Distinct(h)}

----------------------------------------------------------------------------
(* models.py *)

None == [dataset |-> <<>>, name |-> ""]

Snapshot(ds, label) == [dataset |-> ds, name |-> label]

\* DestinationConfig.dataset_for: pool/prefix/src_dataset
dataset_for(src_dataset) == <<"xpool", "BACKUP">> \o src_dataset

\* what list_snapshots returns for a dataset whose labels are h, oldest first
SnapList(ds, h) == [i \in 1..Len(h) |-> Snapshot(ds, h[i])]

Names(snaps) == {snaps[i].name : i \in 1..Len(snaps)}

----------------------------------------------------------------------------
(* zfs.find_common_snapshot *)

\* for snap in reversed(src_snaps): if snap.name in dst_names: return snap
RECURSIVE ScanNewestFirst(_, _, _)
ScanNewestFirst(snaps, dst_names, i) ==
    IF i = 0 THEN None
    ELSE IF snaps[i].name \in dst_names THEN snaps[i]
    ELSE ScanNewestFirst(snaps, dst_names, i - 1)

\* a scan oldest first: the bug the newest-first order avoids
RECURSIVE ScanOldestFirst(_, _, _)
ScanOldestFirst(snaps, dst_names, i) ==
    IF i > Len(snaps) THEN None
    ELSE IF snaps[i].name \in dst_names THEN snaps[i]
    ELSE ScanOldestFirst(snaps, dst_names, i + 1)

find_common_snapshot_oldest(s, d) == ScanOldestFirst(s, Names(d), 1)

find_common_snapshot(s, d) == ScanNewestFirst(s, Names(d), Len(s))

----------------------------------------------------------------------------
(* backup._plan_dataset *)

\* next(i for i, s in enumerate(snaps) if s.name == name)
FirstIndex(snaps, name) == Min({i \in 1..Len(snaps) : snaps[i].name = name})

\* snaps[idx + 1:]
After(snaps, idx) == SubSeq(snaps, idx + 1, Len(snaps))

NoCmd == <<>>

\* the stream is received into the source dataset
_format_bootstrap_command_intoSource(src_dataset, first_snap, dst_dataset) ==
    <<"zfs send", src_dataset, first_snap, "zfs recv -F", src_dataset>>

_format_bootstrap_command(src_dataset, first_snap, dst_dataset) ==
    <<"zfs send", src_dataset, first_snap, "zfs recv -F", dst_dataset>>

_DatasetPlan(src_dataset, dst_dataset) ==
    [src_dataset |-> src_dataset, dst_dataset |-> dst_dataset,
     action |-> "skip", common |-> None, latest |-> None,
     new_snap_count |-> 0, rollback_victims |-> <<>>,
     message |-> "", bootstrap_cmd |-> NoCmd]

\* a rollback as soon as the destination holds any snapshot but the common one
NeedsRollback_anyOther(d, c) == \E i \in 1..Len(d) : d[i].name # c.name

\* needs_rollback = dst_snaps and dst_snaps[-1].name != common.name
NeedsRollback(d, c) == Len(d) > 0 /\ d[Len(d)].name # c.name

\* the victims, from the first destination snapshot that does not carry the
\* common label instead of from the common snapshot's position
RollbackVictims_fromHead(d, c) ==
    IF NeedsRollback(d, c) THEN After(d, FirstIndex(d, c.name) - 1) ELSE <<>>

RollbackVictims(d, c) ==
    IF NeedsRollback(d, c) THEN After(d, FirstIndex(d, c.name)) ELSE <<>>

NewSnaps(s, c) == After(s, FirstIndex(s, c.name))

\* the classification with rollback_only and rollback_and_send exchanged
Classify_swapped(needs_rollback, has_new) ==
    IF ~has_new /\ ~needs_rollback THEN "up_to_date"
    ELSE IF needs_rollback
         THEN (IF has_new THEN "rollback_only" ELSE "rollback_and_send")
         ELSE "send"

Classify(needs_rollback, has_new) ==
    IF ~has_new /\ ~needs_rollback THEN "up_to_date"
    ELSE IF needs_rollback
         THEN (IF has_new THEN "rollback_and_send" ELSE "rollback_only")
         ELSE "send"

\* the part of _plan_dataset after a common snapshot was found
PlanWithCommon(p, s, d, c) ==
    LET needs_rollback == NeedsRollback(d, c)
        new_snaps == NewSnaps(s, c)
        has_new == Len(new_snaps) > 0
    IN  [p EXCEPT !.common = c,
                  !.rollback_victims = RollbackVictims(d, c),
                  !.action = Classify(needs_rollback, has_new),
                  !.message = IF ~has_new /\ ~needs_rollback
                              THEN "Already up to date" ELSE "",
                  !.latest = IF has_new THEN new_snaps[Len(new_snaps)] ELSE None,
                  !.new_snap_count = Len(new_snaps)]

\* _plan_dataset with the empty-source exit tried before the destination's
\* existence check
_plan_dataset_skipFirst(src_dataset, dst_dataset, sx, dx, s, d) ==
    LET p == _DatasetPlan(src_dataset, dst_dataset)
        c == find_common_snapshot(s, d)
    IN  IF ~sx
        THEN [p EXCEPT !.action = "error",
                       !.message = "Source dataset does not exist"]
        ELSE IF Len(s) = 0
        THEN [p EXCEPT !.action = "skip", !.message = "Source has no snapshots"]
        ELSE IF ~dx
        THEN [p EXCEPT !.action = "error",
                       !.message = "Destination dataset does not exist",
                       !.bootstrap_cmd =
                           _format_bootstrap_command(src_dataset, s[1].name, dst_dataset)]
        ELSE IF c = None
        THEN [p EXCEPT !.action = "error",
                       !.message = "No common snapshot found between source and destination",
                       !.bootstrap_cmd =
                           _format_bootstrap_command(src_dataset, s[1].name, dst_dataset)]
        ELSE PlanWithCommon(p, s, d, c)

\* _plan_dataset, given the executors' answers: sx, dx the two existence
\* checks, s, d the two listings
_plan_dataset(src_dataset, dst_dataset, sx, dx, s, d) ==
    LET p == _DatasetPlan(src_dataset, dst_dataset)
        c == find_common_snapshot(s, d)
    IN  IF ~sx
        THEN [p EXCEPT !.action = "error",
                       !.message = "Source dataset does not exist"]
        ELSE IF ~dx
        THEN [p EXCEPT !.action = "error",
                       !.message = "Destination dataset does not exist",
                       !.bootstrap_cmd =
                           IF Len(s) > 0
                           THEN _format_bootstrap_command(src_dataset, s[1].name, dst_dataset)
                           ELSE NoCmd]
        ELSE IF Len(s) = 0
        THEN [p EXCEPT !.action = "skip", !.message = "Source has no snapshots"]
        ELSE IF c = None
        THEN [p EXCEPT !.action = "error",
                       !.message = "No common snapshot found between source and destination",
                       !.bootstrap_cmd =
                           _format_bootstrap_command(src_dataset, s[1].name, dst_dataset)]
        ELSE PlanWithCommon(p, s, d, c)

----------------------------------------------------------------------------
(* zfs.send_incremental *)

\* exit codes Popen.wait can report: 0, a failure code, a negative code for
\* a process killed by a signal
RetCodes == {-13, -9, 0, 1, 2}

\* the code wait() reports for a process ended by SIGPIPE
SIGPIPE == -13

MaxChunks == 2
PipeCapacity == 1

NoError == [cmd |-> "", returncode |-> 0, stderr |-> <<>>]

ExecutorError(cmd, returncode, stderr) ==
    [cmd |-> cmd, returncode |-> returncode, stderr |-> stderr]

NoProc == [state |-> "none", code |-> 0]

\* if send_rc != 0: the receive side's exit code is never looked at
ExitFailed_sendOnly(s_rc, r_rc) == s_rc # 0

\* if send_rc != 0 or recv_rc != 0
ExitFailed(s_rc, r_rc) == s_rc # 0 \/ r_rc # 0

\* the ExecutorError of lines 131-135
PipeError(s_rc, r_rc) ==
    ExecutorError("send|recv", IF s_rc >= r_rc THEN s_rc ELSE r_rc, <<s_rc, r_rc>>)

\* the spawn failure of the send process reported under the receive command
SendSpawnError_asRecv == ExecutorError("recv", 1, <<"OSError">>)

\* raise ExecutorError(send_cmd, 1, str(e)): e is the OSError of the spawn
SendSpawnError == ExecutorError("send", 1, <<"OSError">>)

\* raise ExecutorError(recv_cmd, 1, str(e))
RecvSpawnError == ExecutorError("recv", 1, <<"OSError">>)

\* what a whole call of send_incremental ends in, given whether each popen
\* succeeds and the two exit codes: NoError for a normal return
send_incremental(dry, send_spawns, recv_spawns, s_rc, r_rc) ==
    IF dry THEN NoError
    ELSE IF ~send_spawns THEN SendSpawnError
    ELSE IF ~recv_spawns THEN RecvSpawnError
    ELSE IF ExitFailed(s_rc, r_rc) THEN PipeError(s_rc, r_rc)
    ELSE NoError

----------------------------------------------------------------------------
(* Values of the variables a specification does not use *)

NoPlan == _DatasetPlan(<<>>, <<>>)

IdlePure ==
    /\ src_exists = FALSE /\ dst_exists = FALSE
    /\ src_snaps = <<>> /\ dst_snaps = <<>>
    /\ common = None /\ plan = NoPlan

IdleBackupRest ==
    /\ no_confirm = FALSE
    /\ datasets = <<>> /\ world = <<>> /\ plans = <<>> /\ listed = <<>>
    /\ queue = <<>> /\ cur = 0
    /\ any_error = FALSE /\ sent_count = 0 /\ rollback_count = 0
    /\ asked = 0 /\ log = <<>> /\ result = -1

IdleBackup == dry_run = FALSE /\ IdleBackupRest

IdleSend ==
    /\ send_proc = NoProc /\ recv_proc = NoProc /\ pipe_open = FALSE
    /\ send_rc = 0 /\ recv_rc = 0 /\ raised = NoError
    /\ to_write = 0 /\ piped = 0

NoPool == [exists |-> {}, lines |-> <<>>]

IdleDelete ==
    /\ snapshots = <<>> /\ rules = <<>> /\ to_delete = <<>> /\ matched = FALSE

IdleCompactRun ==
    /\ compaction = <<>> /\ dst_pool = NoPool
    /\ delete_plans = <<>> /\ deleted = <<>> /\ pending = <<>>

IdleCompact == IdleDelete /\ IdleCompactRun

----------------------------------------------------------------------------
(* SpecSend: one call of send_incremental, the two children running beside it *)

Running == [state |-> "running", code |-> 0]

InitSend ==
    /\ pc = "s_start"
    /\ dry_run \in BOOLEAN
    /\ IdleBackupRest /\ IdlePure /\ IdleSend /\ IdleCompact

\* if dry_run: return
SendDryRun ==
    /\ pc = "s_start" /\ dry_run
    /\ pc' = "s_returned"
    /\ UNCHANGED <<pureVars, backupVars, sendVars, compactVars>>

\* send_proc = src_executor.popen(send_cmd, stdout=PIPE), or OSError; the
\* started zfs send has a stream of some length to write
PopenSend ==
    /\ pc = "s_start" /\ ~dry_run
    /\ \E spawns \in BOOLEAN :
          IF spawns
          THEN /\ send_proc' = Running /\ pipe_open' = TRUE
               /\ to_write' \in 1..MaxChunks
               /\ pc' = "s_popen_recv"
               /\ UNCHANGED raised
          ELSE /\ raised' = SendSpawnError
               /\ pc' = "s_raised"
               /\ UNCHANGED <<send_proc, pipe_open, to_write>>
    /\ UNCHANGED <<recv_proc, send_rc, recv_rc, piped, pureVars, backupVars,
                   compactVars>>

\* the send process is left running and never waited on
KillAndReap_leak(proc) == proc

\* send_proc.kill(); send_proc.wait()
KillAndReap(proc) ==
    [state |-> "reaped", code |-> IF proc.state = "running" THEN -9 ELSE proc.code]

\* recv_proc = dst_executor.popen(recv_cmd, stdin=send_proc.stdout), or
\* OSError: send_proc.kill(); send_proc.wait(); raise
PopenRecv ==
    /\ pc = "s_popen_recv"
    /\ \E spawns \in BOOLEAN :
          IF spawns
          THEN /\ recv_proc' = Running
               /\ pc' = "s_close"
               /\ UNCHANGED <<send_proc, raised>>
          ELSE /\ send_proc' = KillAndReap(send_proc)
               /\ raised' = RecvSpawnError
               /\ pc' = "s_raised"
               /\ UNCHANGED recv_proc
    /\ UNCHANGED <<pipe_open, send_rc, recv_rc, to_write, piped,
                   pureVars, backupVars, compactVars>>

\* the orchestrator goes on to wait with the read end still open
ClosedHandle_kept == TRUE

\* send_proc.stdout.close(): the orchestrator's read end is closed
ClosedHandle == FALSE

CloseStdout ==
    /\ pc = "s_close"
    /\ pipe_open' = ClosedHandle
    /\ pc' = "s_wait_recv"
    /\ UNCHANGED <<send_proc, recv_proc, send_rc, recv_rc, raised,
                   to_write, piped, pureVars, backupVars, compactVars>>

\* some process holds the read end of the pipe: the receive process while
\* it runs, the orchestrator until it closes send_proc.stdout
Readers == recv_proc.state = "running" \/ pipe_open

\* zfs send writes a chunk: the pipe has room and a reader
SendWrites ==
    /\ send_proc.state = "running"
    /\ to_write > 0 /\ piped < PipeCapacity /\ Readers
    /\ to_write' = to_write - 1 /\ piped' = piped + 1
    /\ UNCHANGED <<pc, send_proc, recv_proc, pipe_open, send_rc, recv_rc, raised,
                   pureVars, backupVars, compactVars>>

\* zfs send has written its stream and exits
SendFinishes ==
    /\ send_proc.state = "running" /\ to_write = 0
    /\ send_proc' = [state |-> "exited", code |-> 0]
    /\ UNCHANGED <<pc, recv_proc, pipe_open, send_rc, recv_rc, raised,
                   to_write, piped, pureVars, backupVars, compactVars>>

\* zfs send writes to a pipe nobody reads from: SIGPIPE ends it
SendBrokenPipe ==
    /\ send_proc.state = "running" /\ to_write > 0 /\ ~Readers
    /\ send_proc' = [state |-> "exited", code |-> SIGPIPE]
    /\ UNCHANGED <<pc, recv_proc, pipe_open, send_rc, recv_rc, raised,
                   to_write, piped, pureVars, backupVars, compactVars>>

\* zfs send fails or is killed, at any moment
SendFails ==
    /\ send_proc.state = "running"
    /\ \E code \in RetCodes \ {0, SIGPIPE} :
          send_proc' = [state |-> "exited", code |-> code]
    /\ UNCHANGED <<pc, recv_proc, pipe_open, send_rc, recv_rc, raised,
                   to_write, piped, pureVars, backupVars, compactVars>>

\* the zfs send process ends, by itself or by a signal
SendExits == SendFinishes \/ SendBrokenPipe \/ SendFails

\* zfs recv takes a chunk from the pipe
RecvReads ==
    /\ recv_proc.state = "running" /\ piped > 0
    /\ piped' = piped - 1
    /\ UNCHANGED <<pc, send_proc, recv_proc, pipe_open, send_rc, recv_rc, raised,
                   to_write, pureVars, backupVars, compactVars>>

\* zfs recv reads the end of the stream (the writer is gone, the pipe is
\* empty) and exits
RecvFinishes ==
    /\ recv_proc.state = "running"
    /\ send_proc.state # "running" /\ piped = 0
    /\ \E code \in {0, 1} : recv_proc' = [state |-> "exited", code |-> code]
    /\ UNCHANGED <<pc, send_proc, pipe_open, send_rc, recv_rc, raised,
                   to_write, piped, pureVars, backupVars, compactVars>>

\* zfs recv fails or is killed, at any moment
RecvFails ==
    /\ recv_proc.state = "running"
    /\ \E code \in RetCodes \ {0} :
          recv_proc' = [state |-> "exited", code |-> code]
    /\ UNCHANGED <<pc, send_proc, pipe_open, send_rc, recv_rc, raised,
                   to_write, piped, pureVars, backupVars, compactVars>>

\* the zfs recv process ends
RecvExits == RecvFinishes \/ RecvFails

\* recv_rc = recv_proc.wait()
WaitRecv ==
    /\ pc = "s_wait_recv" /\ recv_proc.state = "exited"
    /\ recv_rc' = recv_proc.code
    /\ recv_proc' = [recv_proc EXCEPT !.state = "reaped"]
    /\ pc' = "s_wait_send"
    /\ UNCHANGED <<send_proc, pipe_open, send_rc, raised, to_write, piped,
                   pureVars, backupVars, compactVars>>

\* send_rc = send_proc.wait()
WaitSend ==
    /\ pc = "s_wait_send" /\ send_proc.state = "exited"
    /\ send_rc' = send_proc.code
    /\ send_proc' = [send_proc EXCEPT !.state = "reaped"]
    /\ pc' = "s_check"
    /\ UNCHANGED <<recv_proc, pipe_open, recv_rc, raised, to_write, piped,
                   pureVars, backupVars, compactVars>>

\* if send_rc != 0 or recv_rc != 0: raise ExecutorError(...)
CheckExit ==
    /\ pc = "s_check"
    /\ IF ExitFailed(send_rc, recv_rc)
       THEN raised' = PipeError(send_rc, recv_rc) /\ pc' = "s_raised"
       ELSE pc' = "s_returned" /\ UNCHANGED raised
    /\ UNCHANGED <<send_proc, recv_proc, pipe_open, send_rc, recv_rc,
                   to_write, piped, pureVars, backupVars, compactVars>>

NextSend ==
    \/ SendDryRun \/ PopenSend \/ PopenRecv \/ CloseStdout
    \/ SendWrites \/ RecvReads \/ SendExits \/ RecvExits
    \/ WaitRecv \/ WaitSend \/ CheckExit

SpecSend == InitSend /\ [][NextSend]_vars

\* The orchestrator is a running thread, so each of its steps is taken once
\* it can be.  A process that can write, read, finish at the end of its
\* stream or die of SIGPIPE does so; nothing promises that a process fails
\* by itself.
FairSend ==
    /\ WF_vars(SendDryRun) /\ WF_vars(PopenSend) /\ WF_vars(PopenRecv)
    /\ WF_vars(CloseStdout)
    /\ WF_vars(WaitRecv) /\ WF_vars(WaitSend) /\ WF_vars(CheckExit)
    /\ WF_vars(SendWrites) /\ WF_vars(RecvReads)
    /\ WF_vars(SendFinishes) /\ WF_vars(SendBrokenPipe) /\ WF_vars(RecvFinishes)

SpecSendLive == InitSend /\ [][NextSend]_vars /\ FairSend

----------------------------------------------------------------------------
(* SpecCommon: find_common_snapshot on arbitrary lists of snapshots *)

InitCommon ==
    /\ pc = "input"
    /\ \E s, d \in SeqsUpTo(Labels, MaxLen) :
          /\ src_snaps = SnapList(SRC, s)
          /\ dst_snaps = SnapList(dataset_for(SRC), d)
    /\ src_exists = TRUE /\ dst_exists = TRUE
    /\ common = None /\ plan = NoPlan
    /\ IdleBackup /\ IdleSend /\ IdleCompact

FindCommon ==
    /\ pc = "input"
    /\ common' = find_common_snapshot(src_snaps, dst_snaps)
    /\ pc' = "found"
    /\ UNCHANGED <<src_exists, dst_exists, src_snaps, dst_snaps, plan,
                   backupVars, sendVars, compactVars>>

NextCommon == FindCommon

SpecCommon == InitCommon /\ [][NextCommon]_vars

----------------------------------------------------------------------------
(* SpecPlan: one call of _plan_dataset against the executors' answers *)

InitPlan ==
    /\ pc = "input"
    /\ src_exists \in BOOLEAN /\ dst_exists \in BOOLEAN
    /\ \E s, d \in Listings(Labels, MaxLen) :
          /\ src_snaps = SnapList(SRC, s)
          /\ dst_snaps = SnapList(dataset_for(SRC), d)
    /\ common = None /\ plan = NoPlan
    /\ IdleBackup /\ IdleSend /\ IdleCompact

\* every executor command succeeds or reports the dataset absent
PlanReturns ==
    /\ pc = "input"
    /\ plan' = _plan_dataset(SRC, dataset_for(SRC), src_exists, dst_exists,
                             src_snaps, dst_snaps)
    /\ common' = IF src_exists /\ dst_exists /\ Len(src_snaps) > 0
                 THEN find_common_snapshot(src_snaps, dst_snaps) ELSE None
    /\ pc' = "planned"
    /\ UNCHANGED <<src_exists, dst_exists, src_snaps, dst_snaps,
                   backupVars, sendVars, compactVars>>

\* a zfs list -t snapshot fails after the existence check passed: the
\* ExecutorError of executor.run leaves _plan_dataset
PlanRaises ==
    /\ pc = "input"
    /\ src_exists
    /\ pc' = "raised"
    /\ UNCHANGED <<pureVars, backupVars, sendVars, compactVars>>

NextPlan == PlanReturns \/ PlanRaises

SpecPlan == InitPlan /\ [][NextPlan]_vars

\* _plan_dataset on a source listing in which a label may occur again, as
\* an executor other than zfs itself may answer
InitPlanDup ==
    /\ pc = "input"
    /\ src_exists \in BOOLEAN /\ dst_exists \in BOOLEAN
    /\ \E s \in SeqsUpTo(Labels, MaxLen), d \in Listings(Labels, MaxLen) :
          /\ src_snaps = SnapList(SRC, s)
          /\ dst_snaps = SnapList(dataset_for(SRC), d)
    /\ common = None /\ plan = NoPlan
    /\ IdleBackup /\ IdleSend /\ IdleCompact

SpecPlanDup == InitPlanDup /\ [][NextPlan]_vars

----------------------------------------------------------------------------
(* SpecReplan: _plan_dataset called twice on one dataset, with the commands *)
(* it sends to the two executors                                            *)

Cmd(op, dataset) == [op |-> op, dataset |-> dataset]

\* the bootstrap command of the plan is run as well
PlanCommands_bootstrap(p, sx, dx) ==
    <<Cmd("exists", p.src_dataset)>>
    \o (IF ~sx THEN <<>>
        ELSE <<Cmd("exists", p.dst_dataset)>>
             \o (IF ~dx THEN <<Cmd("list", p.src_dataset)>>
                 ELSE <<Cmd("list", p.src_dataset), Cmd("list", p.dst_dataset)>>))
    \o (IF p.bootstrap_cmd = NoCmd THEN <<>>
        ELSE <<Cmd("bootstrap", p.dst_dataset)>>)

\* the commands the call of _plan_dataset that returned p sent: zfs list of
\* the dataset by dataset_exists, zfs list -t snapshot by list_snapshots
PlanCommands(p, sx, dx) ==
    <<Cmd("exists", p.src_dataset)>>
    \o (IF ~sx THEN <<>>
        ELSE <<Cmd("exists", p.dst_dataset)>>
             \o (IF ~dx THEN <<Cmd("list", p.src_dataset)>>
                 ELSE <<Cmd("list", p.src_dataset), Cmd("list", p.dst_dataset)>>))

\* the two datasets as the executors see them
ThePools ==
    [sx |-> src_exists, dx |-> dst_exists, s |-> src_snaps, d |-> dst_snaps]

\* what a command leaves of the datasets: zfs list reads; zfs send of the
\* source's first snapshot into zfs recv -F creates the destination
ExecutorRun(w, c) ==
    IF c.op \in {"exists", "list"} THEN w
    ELSE [w EXCEPT !.dx = TRUE, !.d = <<Snapshot(c.dataset, w.s[1].name)>>]

RECURSIVE RunAll(_, _)
RunAll(w, cmds) ==
    IF cmds = <<>> THEN w ELSE RunAll(ExecutorRun(w, Head(cmds)), Tail(cmds))

InitReplan ==
    /\ pc = "input"
    /\ src_exists \in BOOLEAN /\ dst_exists \in BOOLEAN
    /\ \E s, d \in Listings(Labels, MaxLen) :
          /\ src_snaps = SnapList(SRC, s)
          /\ dst_snaps = SnapList(dataset_for(SRC), d)
    /\ common = None /\ plan = NoPlan
    /\ listed = <<ThePools>>
    /\ dry_run = FALSE /\ no_confirm = FALSE
    /\ datasets = <<>> /\ world = <<>> /\ plans = <<>>
    /\ queue = <<>> /\ cur = 0
    /\ any_error = FALSE /\ sent_count = 0 /\ rollback_count = 0
    /\ asked = 0 /\ log = <<>> /\ result = -1
    /\ IdleSend /\ IdleCompact

\* one call of _plan_dataset: its commands go to the executors, its plan
\* is kept
PlanOnce ==
    /\ pc \in {"input", "planned"}
    /\ LET p == _plan_dataset(SRC, dataset_for(SRC), src_exists, dst_exists,
                              src_snaps, dst_snaps)
           cmds == PlanCommands(p, src_exists, dst_exists)
           w == RunAll(ThePools, cmds)
       IN  /\ plan' = p
           /\ plans' = Append(plans, p)
           /\ log' = log \o cmds
           /\ src_exists' = w.sx /\ dst_exists' = w.dx
           /\ src_snaps' = w.s /\ dst_snaps' = w.d
    /\ pc' = IF pc = "input" THEN "planned" ELSE "replanned"
    /\ UNCHANGED <<common, dry_run, no_confirm, datasets, world, listed, queue,
                   cur, any_error, sent_count, rollback_count, asked, result,
                   sendVars, compactVars>>

\* a zfs list -t snapshot fails after the existence check passed
ReplanRaises ==
    /\ pc \in {"input", "planned"}
    /\ src_exists
    /\ log' = log \o <<Cmd("exists", SRC), Cmd("exists", dataset_for(SRC)),
                       Cmd("list", SRC)>>
    /\ pc' = "raised"
    /\ UNCHANGED <<pureVars, dry_run, no_confirm, datasets, world, plans,
                   listed, queue, cur, any_error, sent_count, rollback_count,
                   asked, result, sendVars, compactVars>>

NextReplan == PlanOnce \/ ReplanRaises

SpecReplan == InitReplan /\ [][NextReplan]_vars

----------------------------------------------------------------------------
(* backup.run_backup *)

Configs == {<<>>, <<D1>>, <<D1, D2>>, <<D1, D1>>}

\* The pools before the run.  The code compares labels for equality only, so
\* the labels are named after their place in the source history; the
\* destination lists any distinct labels in any order.
Worlds ==
    {[sx |-> FALSE, dx |-> FALSE, s |-> <<>>, d |-> <<>>]}
    \cup {[sx |-> TRUE, dx |-> FALSE, s |-> SubSeq(RunOrder, 1, k), d |-> <<>>] :
             k \in 0..MaxRunLen}
    \cup {[sx |-> TRUE, dx |-> TRUE, s |-> SubSeq(RunOrder, 1, k), d |-> h] :
             k \in 0..MaxRunLen, h \in Listings(RunLabels, MaxRunLen)}

SelectIdx(ps, acts) ==
    LET F[i \in 0..Len(ps)] ==
            IF i = 0 THEN <<>>
            ELSE IF ps[i].action \in acts THEN Append(F[i - 1], i) ELSE F[i - 1]
    IN  F[Len(ps)]

RollbackActions == {"rollback_and_send", "rollback_only"}

\* rollback_plans and send_plans of lines 189-190, as indices into plans
rollback_plans(ps) == SelectIdx(ps, RollbackActions)
send_plans(ps) == SelectIdx(ps, {"send"})
error_plans(ps) == SelectIdx(ps, {"error"})
up_to_date_plans(ps) == SelectIdx(ps, {"up_to_date"})
skip_plans(ps) == SelectIdx(ps, {"skip"})

\* the numbers phase 4 prints, lines 304-314
SummaryCounts(sent, rollbacks, ps) ==
    [sent |-> sent, rollbacks |-> rollbacks,
     up_to_date |-> Len(up_to_date_plans(ps)),
     errors |-> Len(error_plans(ps)),
     skipped |-> Len(skip_plans(ps))]

LogEntry(op, i, dst, from, to, ok) ==
    [op |-> op, idx |-> i, dst |-> dst, from |-> from, to |-> to, ok |-> ok]

\* zfs rollback -r dst@label destroys every snapshot of dst newer than label
ZfsRollback(w, label) ==
    [w EXCEPT !.d = SubSeq(w.d, 1, Min({i \in 1..Len(w.d) : w.d[i] = label}))]

\* zfs recv of the stream of zfs send -I c l appends the source's snapshots
\* after c, up to l, to the destination
ZfsReceive(w, c, l) ==
    LET ci == Min({i \in 1..Len(w.s) : w.s[i] = c.name})
        li == Max({i \in 1..Len(w.s) : w.s[i] = l.name})
    IN  [w EXCEPT !.d = w.d \o SubSeq(w.s, ci + 1, li)]

\* zfs recv refuses a stream whose start is not the destination's newest
\* snapshot
RecvAccepts(w, c) == Len(w.d) > 0 /\ w.d[Len(w.d)] = c.name

InitBackup ==
    /\ pc = "start"
    /\ dry_run \in BOOLEAN /\ no_confirm \in BOOLEAN
    /\ datasets \in Configs
    /\ world \in [{datasets[i] : i \in 1..Len(datasets)} -> Worlds]
    /\ plans = <<>> /\ listed = <<>> /\ queue = <<>> /\ cur = 0
    /\ any_error = FALSE /\ sent_count = 0 /\ rollback_count = 0
    /\ asked = 0 /\ log = <<>> /\ result = -1
    /\ IdlePure /\ IdleSend /\ IdleCompact

\* if not datasets: return 1
NoDatasets ==
    /\ pc = "start" /\ datasets = <<>>
    /\ result' = 1 /\ pc' = "done"
    /\ UNCHANGED <<dry_run, no_confirm, datasets, world, plans, listed, queue, cur,
                   any_error, sent_count, rollback_count, asked, log,
                   pureVars, sendVars, compactVars>>

\* Phase 1, one pass of the loop: plan the next dataset of config.datasets
PlanNext ==
    /\ pc = "start" /\ Len(plans) < Len(datasets)
    /\ LET ds == datasets[Len(plans) + 1]
           w == world[ds]
       IN  plans' = Append(plans,
                _plan_dataset(ds, dataset_for(ds), w.sx, w.dx,
                              SnapList(ds, w.s), SnapList(dataset_for(ds), w.d)))
    /\ listed' = Append(listed, world[datasets[Len(plans) + 1]])
    /\ UNCHANGED <<pc, dry_run, no_confirm, datasets, world, queue, cur,
                   any_error, sent_count, rollback_count, asked, log, result,
                   pureVars, sendVars, compactVars>>

\* Phase 1: a listing fails after the existence check passed; nothing in
\* run_backup catches the ExecutorError
PlanListingFails ==
    /\ pc = "start" /\ Len(plans) < Len(datasets)
    /\ world[datasets[Len(plans) + 1]].sx
    /\ pc' = "raised"
    /\ UNCHANGED <<backupVars, pureVars, sendVars, compactVars>>

Planned == pc = "start" /\ datasets # <<>> /\ Len(plans) = Len(datasets)

\* any_error starts False whatever the plans say
BeginExecute_noPlanErrors ==
    /\ any_error' = FALSE
    /\ queue' = rollback_plans(plans)
    /\ pc' = "rollback"

\* the start of phase 3: any_error = bool(error_plans)
BeginExecute ==
    /\ any_error' = (error_plans(plans) # <<>>)
    /\ queue' = rollback_plans(plans)
    /\ pc' = "rollback"

\* a prompt whenever confirmation is not suppressed, rollback or not
NeedsConfirm_always == ~no_confirm

\* if rollback_plans: ... if not no_confirm: _confirm(...)
NeedsConfirm == rollback_plans(plans) # <<>> /\ ~no_confirm

\* what the user can type at the prompt; EndOfInput stands for the EOFError
\* or KeyboardInterrupt that input() raises
EndOfInput == "^D"
Inputs == {"y", "yes", "Y", " Yes ", "n", "", "yes please", EndOfInput}

\* answer.strip().lower() on the lines of Inputs
StripLower(answer) ==
    CASE answer = "Y" -> "y"
      [] answer = " Yes " -> "yes"
      [] OTHER -> answer

\* everything but an explicit refusal counts as a yes
_confirm_unlessNo(answer) == StripLower(answer) # "n"

\* backup._confirm: True only for y or yes; False at the end of input
_confirm(answer) ==
    IF answer = EndOfInput THEN FALSE ELSE StripLower(answer) \in {"y", "yes"}

\* the prompt as the log records it: what was typed and what _confirm made of it
PromptEntry(answer) ==
    [op |-> "prompt", idx |-> 0, dst |-> <<>>, from |-> None, to |-> None,
     ok |-> _confirm(answer), answer |-> answer]

\* Phase 2 with rollback plans and no_confirm false: _confirm is called
AskConfirm ==
    /\ Planned
    /\ NeedsConfirm
    /\ asked' = asked + 1
    /\ \E answer \in Inputs :
          /\ log' = Append(log, PromptEntry(answer))
          /\ IF _confirm(answer)
             THEN BeginExecute /\ UNCHANGED result
             ELSE /\ result' = 1 /\ pc' = "done"
                  /\ UNCHANGED <<any_error, queue>>
    /\ UNCHANGED <<dry_run, no_confirm, datasets, world, plans, listed, cur,
                   sent_count, rollback_count, pureVars, sendVars,
                   compactVars>>

\* Phase 2 without a prompt
SkipConfirm ==
    /\ Planned
    /\ ~NeedsConfirm
    /\ BeginExecute
    /\ UNCHANGED <<dry_run, no_confirm, datasets, world, plans, listed, cur,
                   sent_count, rollback_count, asked, log, result,
                   pureVars, sendVars, compactVars>>

\* after a rollback that did not fail: if plan.latest, go on to the send
AfterRollback(i) ==
    IF plans[i].latest # None
    THEN pc' = "rollback_send" /\ cur' = i /\ UNCHANGED queue
    ELSE pc' = "rollback" /\ cur' = 0 /\ queue' = Tail(queue)

\* the rollback failed and the loop is left
RollbackFailed_break ==
    /\ any_error' = TRUE
    /\ queue' = <<>>
    /\ UNCHANGED <<pc, cur>>

\* the rollback failed and the send of the same plan is still run
RollbackFailed_sends ==
    /\ any_error' = TRUE
    /\ AfterRollback(Head(queue))

\* except ExecutorError: any_error = True; continue
RollbackFailed ==
    /\ any_error' = TRUE
    /\ queue' = Tail(queue)
    /\ UNCHANGED <<pc, cur>>

\* Phase 3, rollback loop, dry run: the command is printed, not run
RollbackDry ==
    /\ pc = "rollback" /\ queue # <<>> /\ dry_run
    /\ rollback_count' = rollback_count + 1
    /\ AfterRollback(Head(queue))
    /\ UNCHANGED <<dry_run, no_confirm, datasets, world, plans, listed, any_error,
                   sent_count, asked, log, result, pureVars, sendVars,
                   compactVars>>

\* the rollback goes to the newest planned snapshot
RollbackTarget_latest(p) ==
    Snapshot(p.dst_dataset,
             IF p.latest # None THEN p.latest.name ELSE p.common.name)

\* the snapshot the rollback command names:
\* f"{plan.dst_dataset}@{plan.common.name}"
RollbackTarget(p) == Snapshot(p.dst_dataset, p.common.name)

\* Phase 3, rollback loop: dst_executor.run(zfs rollback -r dst@common);
\* zfs rollback succeeds only for a snapshot the destination has
RollbackRun ==
    /\ pc = "rollback" /\ queue # <<>> /\ ~dry_run
    /\ LET i == Head(queue)
           p == plans[i]
       IN  \E ok \in BOOLEAN :
             /\ ok => RollbackTarget(p).name \in Range(world[p.src_dataset].d)
             /\ log' = Append(log, LogEntry("rollback", i, p.dst_dataset,
                                            RollbackTarget(p), None, ok))
             /\ IF ok
                THEN /\ rollback_count' = rollback_count + 1
                     /\ world' = [world EXCEPT ![p.src_dataset] =
                                      ZfsRollback(@, RollbackTarget(p).name)]
                     /\ AfterRollback(i)
                     /\ UNCHANGED any_error
                ELSE /\ RollbackFailed
                     /\ UNCHANGED <<rollback_count, world>>
    /\ UNCHANGED <<dry_run, no_confirm, datasets, plans, listed, sent_count, asked,
                   result, pureVars, sendVars, compactVars>>

\* one call of zfs.send_incremental for plan i, and the try/except around it
Transfer(i) ==
    LET p == plans[i] IN
    \E send_spawns, recv_spawns \in BOOLEAN, s_rc, r_rc \in RetCodes :
       LET e == send_incremental(dry_run, send_spawns, recv_spawns, s_rc, r_rc)
       IN  /\ (~dry_run /\ e = NoError) => RecvAccepts(world[p.src_dataset], p.common)
           /\ log' = IF dry_run THEN log
                     ELSE Append(log, LogEntry("send", i, p.dst_dataset,
                                               p.common, p.latest, e = NoError))
           /\ IF e = NoError
              THEN /\ sent_count' = sent_count + 1
                   /\ world' = IF dry_run THEN world
                               ELSE [world EXCEPT ![p.src_dataset] =
                                        ZfsReceive(@, p.common, p.latest)]
                   /\ UNCHANGED any_error
              ELSE /\ any_error' = TRUE
                   /\ UNCHANGED <<sent_count, world>>

\* Phase 3, rollback loop: the send after the rollback
RollbackSend ==
    /\ pc = "rollback_send"
    /\ Transfer(cur)
    /\ pc' = "rollback" /\ cur' = 0 /\ queue' = Tail(queue)
    /\ UNCHANGED <<dry_run, no_confirm, datasets, plans, listed, rollback_count,
                   asked, result, pureVars, sendVars, compactVars>>

\* the rollback loop is over: the loop over send_plans starts
RollbackDone ==
    /\ pc = "rollback" /\ queue = <<>>
    /\ queue' = send_plans(plans) /\ pc' = "send"
    /\ UNCHANGED <<dry_run, no_confirm, datasets, world, plans, listed, cur, any_error,
                   sent_count, rollback_count, asked, log, result,
                   pureVars, sendVars, compactVars>>

\* Phase 3, one pass of the loop over send_plans
SendNext ==
    /\ pc = "send" /\ queue # <<>>
    /\ Transfer(Head(queue))
    /\ queue' = Tail(queue)
    /\ UNCHANGED <<pc, dry_run, no_confirm, datasets, plans, listed, cur,
                   rollback_count, asked, result, pureVars, sendVars,
                   compactVars>>

\* Phase 4: return 1 if any_error else 0
Summary ==
    /\ pc = "send" /\ queue = <<>>
    /\ result' = (IF any_error THEN 1 ELSE 0)
    /\ pc' = "done"
    /\ UNCHANGED <<dry_run, no_confirm, datasets, world, plans, listed, queue, cur,
                   any_error, sent_count, rollback_count, asked, log,
                   pureVars, sendVars, compactVars>>

Next ==
    \/ NoDatasets \/ PlanNext \/ PlanListingFails
    \/ AskConfirm \/ SkipConfirm
    \/ RollbackDry \/ RollbackRun \/ RollbackSend \/ RollbackDone
    \/ SendNext \/ Summary

Init == InitBackup

Spec == Init /\ [][Next]_vars

----------------------------------------------------------------------------
(* models.RetentionRule and compact._snapshots_to_delete *)

\* In the compaction part a string is a sequence of tokens, a token being a
\* run of characters no pattern looks into: a path segment of a dataset,
\* "@", "d" for a label's prefix such as daily-, "1" for its date.  A
\* snapshot's name is such a sequence, and so is its full name.

MaxSnaps == 3
MaxKeep == 2
MaxRules == 2

CompactLabels == {<<"d", "1">>, <<"d", "2">>, <<"d", "3">>, <<"w", "1">>}

\* Snapshot.full_name: f"{self.dataset}@{self.name}"
full_name(snap) == snap.dataset \o <<"@">> \o snap.name

\* A pattern is the sequence of the elements of its text: a literal token,
\* the wildcard .* or the alternation bar.
Lit(c) == [meta |-> FALSE, ch |-> c]
AnyRun == [meta |-> TRUE, ch |-> ".*"]
Bar == [meta |-> TRUE, ch |-> "|"]

\* re.escape: every token of the string stands for itself
re_escape(str) == [i \in 1..Len(str) |-> Lit(str[i])]

\* The bar binds weakest: a pattern is the alternation of the runs of
\* elements between its bars.
Branches(pattern) ==
    LET n == Len(pattern)
        cuts == {i \in 1..n : pattern[i] = Bar} \cup {0, n + 1}
    IN  {SubSeq(pattern, a + 1, b - 1) :
            <<a, b>> \in {c \in cuts \X cuts :
                            /\ c[1] < c[2]
                            /\ \A k \in cuts : ~(c[1] < k /\ k < c[2])}}

RECURSIVE MatchBranch(_, _)
MatchBranch(branch, str) ==
    IF branch = <<>> THEN str = <<>>
    ELSE IF Head(branch) = AnyRun
    THEN \E k \in 0..Len(str) :
            MatchBranch(Tail(branch), SubSeq(str, k + 1, Len(str)))
    ELSE /\ str # <<>>
         /\ str[1] = Head(branch).ch
         /\ MatchBranch(Tail(branch), Tail(str))

\* re.fullmatch(pattern, str): some alternative matches the whole string
re_fullmatch(pattern, str) == \E b \in Branches(pattern) : MatchBranch(b, str)

RetentionRule(pattern, keep) == [pattern |-> pattern, keep |-> keep]

\* RetentionRule.matches
matches(rule, snapshot_name) == re_fullmatch(rule.pattern, snapshot_name)

\* the rule run_compact builds for one destination dataset:
\* pattern = re.escape(dst_dataset) + "@" + rule.pattern
qualified_rule(dst_dataset, rule) ==
    RetentionRule(re_escape(dst_dataset) \o <<Lit("@")>> \o rule.pattern,
                  rule.keep)

\* matching = [s for s in snapshots if rule.matches(s.full_name)]
Matching(snaps, rule) ==
    SelectSeq(snaps, LAMBDA s : matches(rule, full_name(s)))

\* the newest keep matching snapshots are dropped instead of kept
Candidates_newest(snaps, rule) ==
    LET matching == Matching(snaps, rule)
    IN  IF rule.keep = 0 THEN matching
        ELSE IF Len(matching) <= rule.keep THEN <<>>
        ELSE SubSeq(matching, rule.keep + 1, Len(matching))

\* keep = 0 is read as keep everything
Candidates_keepZeroKeepsAll(snaps, rule) ==
    LET matching == Matching(snaps, rule)
    IN  IF Len(matching) <= rule.keep \/ rule.keep = 0 THEN <<>>
        ELSE SubSeq(matching, 1, Len(matching) - rule.keep)

\* candidates, lines 29-38
Candidates(snaps, rule) ==
    LET matching == Matching(snaps, rule)
    IN  IF rule.keep = 0 THEN matching
        ELSE IF Len(matching) <= rule.keep THEN <<>>
        ELSE SubSeq(matching, 1, Len(matching) - rule.keep)

\* every candidate is appended, seen or not
AppendUnseen_all(acc, cands) == acc \o cands

\* for snap in candidates: if snap.full_name not in seen: append, add
RECURSIVE AppendUnseen(_, _)
AppendUnseen(acc, cands) ==
    IF cands = <<>> THEN acc
    ELSE AppendUnseen(
            IF \E i \in 1..Len(acc) : full_name(acc[i]) = full_name(Head(cands))
            THEN acc ELSE Append(acc, Head(cands)),
            Tail(cands))

_snapshots_to_delete(snaps, rs) ==
    LET F[i \in 0..Len(rs)] ==
            IF i = 0 THEN <<>>
            ELSE AppendUnseen(F[i - 1], Candidates(snaps, rs[i]))
    IN  F[Len(rs)]

\* the configured patterns: .*, d.*, w.*, d1, d1|w.*, d1|.*
Patterns ==
    {<<AnyRun>>, <<Lit("d"), AnyRun>>, <<Lit("w"), AnyRun>>,
     <<Lit("d"), Lit("1")>>,
     <<Lit("d"), Lit("1"), Bar, Lit("w"), AnyRun>>,
     <<Lit("d"), Lit("1"), Bar, AnyRun>>}

\* the patterns of the rules given to _snapshots_to_delete: .*, d.*, d1|w.*
DeletePatterns ==
    {<<AnyRun>>, <<Lit("d"), AnyRun>>,
     <<Lit("d"), Lit("1"), Bar, Lit("w"), AnyRun>>}

Rules == {RetentionRule(p, k) : p \in DeletePatterns, k \in 0..MaxKeep}

DST == dataset_for(SRC)

(* SpecDelete: one call of _snapshots_to_delete on a listing of one dataset *)

InitDelete ==
    /\ pc = "input"
    /\ snapshots \in {SnapList(DST, h) : h \in Listings(CompactLabels, MaxSnaps)}
    /\ rules \in {[i \in 1..Len(rs) |-> qualified_rule(DST, rs[i])] :
                     rs \in SeqsUpTo(Rules, MaxRules)}
    /\ to_delete = <<>> /\ matched = FALSE
    /\ IdleCompactRun /\ IdlePure /\ IdleBackup /\ IdleSend

SelectDeletions ==
    /\ pc = "input"
    /\ to_delete' = _snapshots_to_delete(snapshots, rules)
    /\ pc' = "selected"
    /\ UNCHANGED <<snapshots, rules, matched, compaction, dst_pool,
                   delete_plans, deleted, pending,
                   pureVars, backupVars, sendVars>>

NextDelete == SelectDeletions

SpecDelete == InitDelete /\ [][NextDelete]_vars

----------------------------------------------------------------------------
(* zfs.list_snapshots on a pool with child datasets, and compact.run_compact *)

MaxPoolLen == 2

PoolLabels == {<<"d", "1">>, <<"d", "2">>, <<"w", "1">>}

CompactConfigs == {<<>>, <<D1>>, <<D1, D2>>, <<D2, D1>>, <<D1, D1>>}

\* config.compaction: none, .* keep 0, d.* keep 1, d.* keep 1 then w.* keep 0,
\* d1|w.* keep 0, d1|.* keep 0, d.* keep 1 then .* keep 0
Compactions ==
    {<<>>,
     <<RetentionRule(<<AnyRun>>, 0)>>,
     <<RetentionRule(<<Lit("d"), AnyRun>>, 1)>>,
     <<RetentionRule(<<Lit("d"), AnyRun>>, 1),
       RetentionRule(<<Lit("w"), AnyRun>>, 0)>>,
     <<RetentionRule(<<Lit("d"), Lit("1"), Bar, Lit("w"), AnyRun>>, 0)>>,
     <<RetentionRule(<<Lit("d"), Lit("1"), Bar, AnyRun>>, 0)>>,
     <<RetentionRule(<<Lit("d"), AnyRun>>, 1),
       RetentionRule(<<AnyRun>>, 0)>>}

\* a dataset below a configured destination dataset, itself not configured
Child(ds) == ds \o <<"child">>

\* the lines zfs list -t snapshot prints for one dataset, oldest first
Lines(ds, h) == [i \in 1..Len(h) |-> ds \o <<"@">> \o h[i]]

\* The destination pool before the run: the destination of D1 with up to
\* MaxPoolLen snapshots, possibly a child dataset with a snapshot of its
\* own, possibly the destination of D2.
Pools ==
    {[exists |-> {}, lines |-> <<>>]}
    \cup
    {[exists |-> {dataset_for(D1)} \cup kids \cup others,
      lines |-> Lines(dataset_for(D1), h1)
                \o (IF kids = {} THEN <<>> ELSE Lines(Child(dataset_for(D1)), hc))
                \o (IF others = {} THEN <<>> ELSE Lines(dataset_for(D2), h2))] :
        h1 \in Listings(PoolLabels, MaxPoolLen),
        kids \in {{}, {Child(dataset_for(D1))}},
        hc \in {<<<<"d", "1">>>>},
        others \in {{}, {dataset_for(D2)}},
        h2 \in {<<>>, <<<<"d", "1">>>>, <<<<"d", "1">>, <<"d", "2">>>>}}

\* position of the first "@" of a line, 0 if it has none
AtSign(line) ==
    IF \E i \in 1..Len(line) : line[i] = "@"
    THEN Min({i \in 1..Len(line) : line[i] = "@"}) ELSE 0

\* name.split("@")[0]
BeforeAt(line) ==
    IF AtSign(line) = 0 THEN line ELSE SubSeq(line, 1, AtSign(line) - 1)

\* what Snapshot.parse yields when it raises ValueError
ValueError == [dataset |-> <<"ValueError">>, name |-> <<>>]

\* position of the last "@" of a line, 0 if it has none
LastAtSign(line) ==
    IF \E i \in 1..Len(line) : line[i] = "@"
    THEN Max({i \in 1..Len(line) : line[i] = "@"}) ELSE 0

\* the string is cut at its last "@", as rpartition does
Snapshot_parse_lastAt(line) ==
    LET name == SubSeq(line, LastAtSign(line) + 1, Len(line))
    IN  IF LastAtSign(line) = 0 \/ name = <<>> THEN ValueError
        ELSE Snapshot(SubSeq(line, 1, LastAtSign(line) - 1), name)

\* Snapshot.parse: partition at the first "@"; ValueError if the part
\* after it is empty, as it is when there is no "@"
Snapshot_parse(line) ==
    LET name == IF AtSign(line) = 0 THEN <<>>
                ELSE SubSeq(line, AtSign(line) + 1, Len(line))
    IN  IF name = <<>> THEN ValueError
        ELSE Snapshot(BeforeAt(line), name)

IsPrefix(a, b) == Len(a) <= Len(b) /\ SubSeq(b, 1, Len(a)) = a

\* the output of zfs list -H -o name -t snapshot -r dataset: the snapshots
\* of the dataset and of every dataset below it
ZfsListRecursive(pool, dataset) ==
    SelectSeq(pool.lines, LAMBDA line : IsPrefix(dataset, BeforeAt(line)))

\* the lines of the children are kept
list_snapshots_children(dataset, pool) ==
    LET output == ZfsListRecursive(pool, dataset)
    IN  [i \in 1..Len(output) |-> Snapshot_parse(output[i])]

\* zfs.list_snapshots: only the lines whose part before "@" is the dataset
list_snapshots(dataset, pool) ==
    LET output == ZfsListRecursive(pool, dataset)
        kept == SelectSeq(output, LAMBDA line :
                    AtSign(line) # 0 /\ BeforeAt(line) = dataset)
    IN  [i \in 1..Len(kept) |-> Snapshot_parse(kept[i])]

\* every dataset is taken to exist
dataset_exists_always(dataset, pool) == TRUE

\* zfs.dataset_exists
dataset_exists(dataset, pool) == dataset \in pool.exists

\* the destination datasets phase 1 calls zfs.list_snapshots for, in
\* config order: those that passed the existence check
ListedDatasets(dss, pool) ==
    LET dsts == [i \in 1..Len(dss) |-> dataset_for(dss[i])]
    IN  SelectSeq(dsts, LAMBDA d : dataset_exists(d, pool))

\* to_delete of one destination dataset, lines 78-89
DeletionsFor(dst_dataset, pool, rs) ==
    _snapshots_to_delete(
        list_snapshots(dst_dataset, pool),
        [i \in 1..Len(rs) |-> qualified_rule(dst_dataset, rs[i])])

\* Phase 1 of run_compact: delete_plans, in config order
PlanDeletions(dss, pool, rs) ==
    LET F[i \in 0..Len(dss)] ==
            IF i = 0 THEN <<>>
            ELSE LET dst_dataset == dataset_for(dss[i])
                 IN  IF ~dataset_exists(dst_dataset, pool) THEN F[i - 1]
                     ELSE IF DeletionsFor(dst_dataset, pool, rs) = <<>>
                     THEN F[i - 1]
                     ELSE Append(F[i - 1],
                            [dst_dataset |-> dst_dataset,
                             to_delete |-> DeletionsFor(dst_dataset, pool, rs)])
    IN  F[Len(dss)]

\* the destroys of phase 3 in the order of its two loops
RECURSIVE Flatten(_, _)
Flatten(dps, i) ==
    IF i > Len(dps) THEN <<>>
    ELSE [k \in 1..Len(dps[i].to_delete) |->
              [plan |-> i, snap |-> dps[i].to_delete[k]]]
         \o Flatten(dps, i + 1)

\* zfs destroy removes the snapshot from the pool
ZfsDestroy(pool, snap) ==
    [pool EXCEPT !.lines = SelectSeq(@, LAMBDA line : line # full_name(snap))]

InitCompact ==
    /\ pc = "c_start"
    /\ dry_run \in BOOLEAN /\ no_confirm \in BOOLEAN
    /\ datasets \in CompactConfigs
    /\ compaction \in Compactions
    /\ dst_pool \in Pools
    /\ delete_plans = <<>> /\ deleted = <<>> /\ pending = <<>>
    /\ world = <<>> /\ plans = <<>> /\ listed = <<>> /\ queue = <<>> /\ cur = 0
    /\ any_error = FALSE /\ sent_count = 0 /\ rollback_count = 0
    /\ asked = 0 /\ log = <<>> /\ result = -1
    /\ IdleDelete /\ IdlePure /\ IdleSend

\* if not config.compaction: return 0
NoRules ==
    /\ pc = "c_start" /\ compaction = <<>>
    /\ result' = 0 /\ pc' = "c_done"
    /\ UNCHANGED <<compactVars, dry_run, no_confirm, datasets, world, plans,
                   listed, queue, cur, any_error, sent_count, rollback_count,
                   asked, log, pureVars, sendVars>>

\* Phase 1: every configured destination dataset is looked at. zfs list
\* succeeds only for a dataset of the pool. listed records the datasets
\* that were listed, world the pool as it was listed.
CompactPlan ==
    /\ pc = "c_start" /\ compaction # <<>>
    /\ \A d \in Range(ListedDatasets(datasets, dst_pool)) : d \in dst_pool.exists
    /\ delete_plans' = PlanDeletions(datasets, dst_pool, compaction)
    /\ listed' = ListedDatasets(datasets, dst_pool)
    /\ world' = <<dst_pool>>
    /\ pc' = "c_planned"
    /\ UNCHANGED <<snapshots, rules, to_delete, matched, compaction, dst_pool,
                   deleted, pending, dry_run, no_confirm, datasets, plans,
                   queue, cur, any_error, sent_count, rollback_count, asked,
                   log, result, pureVars, sendVars>>

\* Phase 1: a listing fails after the existence check passed; nothing in
\* run_compact catches the ExecutorError
CompactListingFails ==
    /\ pc = "c_start" /\ compaction # <<>>
    /\ ListedDatasets(datasets, dst_pool) # <<>>
    /\ pc' = "raised"
    /\ UNCHANGED <<compactVars, backupVars, pureVars, sendVars>>

\* if not delete_plans: return 0
NothingToCompact ==
    /\ pc = "c_planned" /\ delete_plans = <<>>
    /\ result' = 0 /\ pc' = "c_done"
    /\ UNCHANGED <<compactVars, dry_run, no_confirm, datasets, world, plans,
                   listed, queue, cur, any_error, sent_count, rollback_count,
                   asked, log, pureVars, sendVars>>

\* the dry-run test is skipped
DryRunReturns_never == FALSE

\* if dry_run: return 0
DryRunReturns == dry_run

CompactDryRun ==
    /\ pc = "c_planned" /\ delete_plans # <<>>
    /\ DryRunReturns
    /\ result' = 0 /\ pc' = "c_done"
    /\ UNCHANGED <<compactVars, dry_run, no_confirm, datasets, world, plans,
                   listed, queue, cur, any_error, sent_count, rollback_count,
                   asked, log, pureVars, sendVars>>

\* everything but an explicit n counts as a yes
CompactConfirmed_unlessNo(answer) == StripLower(answer) # "n"

\* lines 115-124: y or yes after strip and lower, False at the end of input
CompactConfirmed(answer) ==
    IF answer = EndOfInput THEN FALSE ELSE StripLower(answer) \in {"y", "yes"}

\* the start of phase 3
BeginDestroy ==
    /\ any_error' = FALSE
    /\ deleted' = [i \in 1..Len(delete_plans) |-> 0]
    /\ pending' = Flatten(delete_plans, 1)
    /\ pc' = "c_execute"

\* Phase 2: the prompt
CompactAskConfirm ==
    /\ pc = "c_planned" /\ delete_plans # <<>>
    /\ ~DryRunReturns /\ ~no_confirm
    /\ asked' = asked + 1
    /\ \E answer \in Inputs :
          /\ log' = Append(log,
                [op |-> "prompt", idx |-> 0, dst |-> <<>>, from |-> None,
                 to |-> None, ok |-> CompactConfirmed(answer), answer |-> answer])
          /\ IF CompactConfirmed(answer)
             THEN BeginDestroy /\ UNCHANGED result
             ELSE /\ result' = 1 /\ pc' = "c_done"
                  /\ UNCHANGED <<any_error, deleted, pending>>
    /\ UNCHANGED <<snapshots, rules, to_delete, matched, compaction, dst_pool,
                   delete_plans, dry_run, no_confirm, datasets, world, plans,
                   listed, queue, cur, sent_count, rollback_count,
                   pureVars, sendVars>>

\* Phase 2 with no_confirm
CompactSkipConfirm ==
    /\ pc = "c_planned" /\ delete_plans # <<>>
    /\ ~DryRunReturns /\ no_confirm
    /\ BeginDestroy
    /\ UNCHANGED <<snapshots, rules, to_delete, matched, compaction, dst_pool,
                   delete_plans, dry_run, no_confirm, datasets, world, plans,
                   listed, queue, cur, sent_count, rollback_count, asked, log,
                   result, pureVars, sendVars>>

\* the first failed destroy ends phase 3
DestroyFailed_break ==
    /\ any_error' = TRUE
    /\ pending' = <<>>
    /\ UNCHANGED deleted

\* a failed destroy is reported and forgotten
DestroyFailed_forgotten ==
    /\ pending' = Tail(pending)
    /\ UNCHANGED <<any_error, deleted>>

\* except ExecutorError: any_error = True
DestroyFailed ==
    /\ any_error' = TRUE
    /\ pending' = Tail(pending)
    /\ UNCHANGED deleted

\* Phase 3, one pass of the inner loop: zfs.destroy_snapshot(snap, ...)
DestroyNext ==
    /\ pc = "c_execute" /\ pending # <<>>
    /\ LET i == Head(pending).plan
           snap == Head(pending).snap
       IN  \E ok \in BOOLEAN :
             /\ ok => full_name(snap) \in Range(dst_pool.lines)
             /\ log' = Append(log, LogEntry("destroy", i,
                                  delete_plans[i].dst_dataset, snap, None, ok))
             /\ IF ok
                THEN /\ deleted' = [deleted EXCEPT ![i] = @ + 1]
                     /\ dst_pool' = ZfsDestroy(dst_pool, snap)
                     /\ pending' = Tail(pending)
                     /\ UNCHANGED any_error
                ELSE /\ DestroyFailed
                     /\ UNCHANGED dst_pool
    /\ UNCHANGED <<pc, snapshots, rules, to_delete, matched, compaction,
                   delete_plans, dry_run, no_confirm, datasets, world, plans,
                   listed, queue, cur, sent_count, rollback_count, asked,
                   result, pureVars, sendVars>>

\* return 1 if any_error else 0
CompactSummary ==
    /\ pc = "c_execute" /\ pending = <<>>
    /\ result' = (IF any_error THEN 1 ELSE 0)
    /\ pc' = "c_done"
    /\ UNCHANGED <<compactVars, dry_run, no_confirm, datasets, world, plans,
                   listed, queue, cur, any_error, sent_count, rollback_count,
                   asked, log, pureVars, sendVars>>

NextCompact ==
    \/ NoRules \/ CompactPlan \/ CompactListingFails \/ NothingToCompact
    \/ CompactDryRun \/ CompactAskConfirm \/ CompactSkipConfirm
    \/ DestroyNext \/ CompactSummary

SpecCompact == InitCompact /\ [][NextCompact]_vars

----------------------------------------------------------------------------
(* SpecSingleFile: run_compact of the single-file distribution src/zbm.py   *)
(* is called with the inputs of SpecCompact. Its lines 770-832 (the rules   *)
(* test, phase 1 and the listing of the plan) are those of the package, so  *)
(* NoRules, CompactPlan, CompactListingFails and NothingToCompact stand for *)
(* them; from line 833 on the function is translated here. It has no        *)
(* "if dry_run: return 0": a dry run goes on to the prompt and to phase 3,   *)
(* where destroy_snapshot gets dry_run and returns before executor.run.     *)

\* zbm.py, phase 2: the prompt, whatever dry_run is
SingleFileAskConfirm ==
    /\ pc = "c_planned" /\ delete_plans # <<>>
    /\ ~no_confirm
    /\ asked' = asked + 1
    /\ \E answer \in Inputs :
          /\ log' = Append(log,
                [op |-> "prompt", idx |-> 0, dst |-> <<>>, from |-> None,
                 to |-> None, ok |-> CompactConfirmed(answer), answer |-> answer])
          /\ IF CompactConfirmed(answer)
             THEN BeginDestroy /\ UNCHANGED result
             ELSE /\ result' = 1 /\ pc' = "c_done"
                  /\ UNCHANGED <<any_error, deleted, pending>>
    /\ UNCHANGED <<snapshots, rules, to_delete, matched, compaction, dst_pool,
                   delete_plans, dry_run, no_confirm, datasets, world, plans,
                   listed, queue, cur, sent_count, rollback_count,
                   pureVars, sendVars>>

\* zbm.py, phase 2 with no_confirm
SingleFileSkipConfirm ==
    /\ pc = "c_planned" /\ delete_plans # <<>>
    /\ no_confirm
    /\ BeginDestroy
    /\ UNCHANGED <<snapshots, rules, to_delete, matched, compaction, dst_pool,
                   delete_plans, dry_run, no_confirm, datasets, world, plans,
                   listed, queue, cur, sent_count, rollback_count, asked, log,
                   result, pureVars, sendVars>>

\* zbm.py, phase 3, one pass of the inner loop:
\* destroy_snapshot(snap, dst_executor, dry_run=dry_run, ...). In a dry run
\* destroy_snapshot prints the command and returns, and deleted is counted.
SingleFileDestroyNext ==
    /\ pc = "c_execute" /\ pending # <<>>
    /\ LET i == Head(pending).plan
           snap == Head(pending).snap
       IN  IF dry_run
           THEN /\ deleted' = [deleted EXCEPT ![i] = @ + 1]
                /\ pending' = Tail(pending)
                /\ UNCHANGED <<log, dst_pool, any_error>>
           ELSE \E ok \in BOOLEAN :
                  /\ ok => full_name(snap) \in Range(dst_pool.lines)
                  /\ log' = Append(log, LogEntry("destroy", i,
                                       delete_plans[i].dst_dataset, snap, None, ok))
                  /\ IF ok
                     THEN /\ deleted' = [deleted EXCEPT ![i] = @ + 1]
                          /\ dst_pool' = ZfsDestroy(dst_pool, snap)
                          /\ pending' = Tail(pending)
                          /\ UNCHANGED any_error
                     ELSE /\ DestroyFailed
                          /\ UNCHANGED dst_pool
    /\ UNCHANGED <<pc, snapshots, rules, to_delete, matched, compaction,
                   delete_plans, dry_run, no_confirm, datasets, world, plans,
                   listed, queue, cur, sent_count, rollback_count, asked,
                   result, pureVars, sendVars>>

NextSingleFile ==
    \/ NoRules \/ CompactPlan \/ CompactListingFails \/ NothingToCompact
    \/ SingleFileAskConfirm \/ SingleFileSkipConfirm
    \/ SingleFileDestroyNext \/ CompactSummary

SpecSingleFile == InitCompact /\ [][NextSingleFile]_vars

----------------------------------------------------------------------------
(* SpecMatch: a configured rule is qualified for one destination dataset and *)
(* matched against the full name of one snapshot of the pool                *)

MatchContainers ==
    {dataset_for(D1), dataset_for(D2), Child(dataset_for(D1))}

InitMatch ==
    /\ pc = "m_input"
    /\ datasets \in {<<D1>>, <<D2>>}
    /\ compaction \in {<<RetentionRule(p, 0)>> : p \in Patterns}
    /\ snapshots \in {<<Snapshot(c, l)>> : c \in MatchContainers, l \in CompactLabels}
    /\ rules = <<>> /\ to_delete = <<>> /\ matched = FALSE
    /\ dst_pool = NoPool /\ delete_plans = <<>> /\ deleted = <<>> /\ pending = <<>>
    /\ dry_run = FALSE /\ no_confirm = FALSE
    /\ world = <<>> /\ plans = <<>> /\ listed = <<>> /\ queue = <<>> /\ cur = 0
    /\ any_error = FALSE /\ sent_count = 0 /\ rollback_count = 0
    /\ asked = 0 /\ log = <<>> /\ result = -1
    /\ IdlePure /\ IdleSend

\* compact.py 82-88
Qualify ==
    /\ pc = "m_input"
    /\ rules' = <<qualified_rule(dataset_for(datasets[1]), compaction[1])>>
    /\ pc' = "m_qualified"
    /\ UNCHANGED <<snapshots, to_delete, matched, compaction, dst_pool,
                   delete_plans, deleted, pending,
                   backupVars, pureVars, sendVars>>

\* rule.matches(s.full_name)
Match ==
    /\ pc = "m_qualified"
    /\ matched' = matches(rules[1], full_name(snapshots[1]))
    /\ pc' = "m_matched"
    /\ UNCHANGED <<snapshots, rules, to_delete, compaction, dst_pool,
                   delete_plans, deleted, pending,
                   backupVars, pureVars, sendVars>>

NextMatch == Qualify \/ Match

SpecMatch == InitMatch /\ [][NextMatch]_vars

----------------------------------------------------------------------------
(* SpecParse: Snapshot.parse on one line of text *)

MaxStr == 4

Chars == {"p", "x", "@"}

InitParse ==
    /\ pc = "p_input"
    /\ dst_pool \in {[exists |-> {}, lines |-> <<s>>] : s \in SeqsUpTo(Chars, MaxStr)}
    /\ compaction = <<>> /\ delete_plans = <<>> /\ deleted = <<>> /\ pending = <<>>
    /\ IdleDelete /\ IdlePure /\ IdleBackup /\ IdleSend

\* return cls(dataset=dataset, name=name)
ParseReturns ==
    /\ pc = "p_input"
    /\ Snapshot_parse(dst_pool.lines[1]) # ValueError
    /\ snapshots' = <<Snapshot_parse(dst_pool.lines[1])>>
    /\ pc' = "p_parsed"
    /\ UNCHANGED <<rules, to_delete, matched, compaction, dst_pool,
                   delete_plans, deleted, pending,
                   backupVars, pureVars, sendVars>>

\* raise ValueError
ParseRaises ==
    /\ pc = "p_input"
    /\ Snapshot_parse(dst_pool.lines[1]) = ValueError
    /\ pc' = "p_raised"
    /\ UNCHANGED <<compactVars, backupVars, pureVars, sendVars>>

NextParse == ParseReturns \/ ParseRaises

SpecParse == InitParse /\ [][NextParse]_vars

----------------------------------------------------------------------------
(* SpecConfig: cli.cmd_backup and cli.cmd_compact up to the start of the   *)
(* job, with config.load_job on the parsed YAML file                        *)

MaxEntries == 2

\* a dataset entry of the YAML list: null, the empty string, a name with
\* blanks around it, a name, the string None
Entries == {"null", "", " d1 ", "d1", "None"}

\* a compaction rule of the YAML file; a missing key is "absent", keep is
\* the scalar as written
RawRule(pattern, keep) == [pattern |-> pattern, keep |-> keep]
RawPatterns == {"absent", ".*", "[unclosed"}
RawKeeps == {"absent", "-1", "0", "7", "many"}
RawRules == {RawRule(p, k) : p \in RawPatterns, k \in RawKeeps}

RawRuleLists ==
    {<<>>} \cup {<<r>> : r \in RawRules}
    \cup {<<RawRule(".*", "7"), r>> : r \in RawRules}

\* what yaml.safe_load returns for the file: no file, a document that is
\* not a mapping, or a mapping with its sections
RawConfigs ==
    {[file |-> f, source_pool |-> "", destination_pool |-> "",
      prefix |-> "absent", datasets |-> <<>>, compaction |-> <<>>] :
        f \in {"missing", "scalar"}}
    \cup
    {[file |-> "mapping", source_pool |-> sp, destination_pool |-> dp,
      prefix |-> px, datasets |-> ds, compaction |-> rs] :
        sp \in {"", "ipool"}, dp \in {"", "xpool"},
        px \in {"absent", "", "BACKUP"},
        ds \in SeqsUpTo(Entries, MaxEntries), rs \in RawRuleLists}

\* what load_job gives: a JobConfig, or the exception that leaves it
Loaded(prefix, ds, rs) ==
    [raises |-> "", prefix |-> prefix, datasets |-> ds, compaction |-> rs]
Raises(exception) ==
    [raises |-> exception, prefix |-> "", datasets |-> <<>>, compaction |-> <<>>]

\* str(d).strip() if d is not None else ""
StripEntry(d) ==
    CASE d = "null" -> ""
      [] d = " d1 " -> "d1"
      [] OTHER -> d

\* int(rule["keep"]) on the scalars of RawKeeps; ValueError for a word
IsInt(k) == k \in {"-1", "0", "7"}
int(k) ==
    CASE k = "-1" -> -1
      [] k = "0" -> 0
      [] k = "7" -> 7

\* re.compile(pattern) succeeds
Compiles(pattern) == pattern # "[unclosed"

\* the datasets loop, lines 64-69: the names, or <<"ConfigError">>
RECURSIVE LoadDatasets(_, _)
LoadDatasets(raw, acc) ==
    IF raw = <<>> THEN acc
    ELSE IF StripEntry(Head(raw)) \in {"", "None"} THEN <<"ConfigError">>
    ELSE LoadDatasets(Tail(raw), Append(acc, StripEntry(Head(raw))))

\* what one pass of the compaction loop raises, lines 73-83; "" if nothing
RuleError(rule) ==
    IF rule.pattern = "absent" \/ rule.keep = "absent" THEN "ConfigError"
    ELSE IF ~IsInt(rule.keep) THEN "ValueError"
    ELSE IF int(rule.keep) < 0 THEN "ConfigError"
    ELSE IF ~Compiles(rule.pattern) THEN "ConfigError"
    ELSE ""

\* the first exception of the compaction loop, "" if it has none
RECURSIVE FirstRuleError(_)
FirstRuleError(raw) ==
    IF raw = <<>> THEN ""
    ELSE IF RuleError(Head(raw)) # "" THEN RuleError(Head(raw))
    ELSE FirstRuleError(Tail(raw))

\* config.load_job
load_job(raw) ==
    IF raw.file = "missing" THEN Raises("FileNotFoundError")
    ELSE IF raw.file # "mapping" THEN Raises("ConfigError")
    ELSE IF raw.source_pool = "" THEN Raises("ConfigError")
    ELSE IF raw.destination_pool = "" THEN Raises("ConfigError")
    ELSE IF raw.prefix = "" THEN Raises("ConfigError")
    ELSE IF raw.datasets = <<>> THEN Raises("ConfigError")
    ELSE IF LoadDatasets(raw.datasets, <<>>) = <<"ConfigError">>
    THEN Raises("ConfigError")
    ELSE IF FirstRuleError(raw.compaction) # ""
    THEN Raises(FirstRuleError(raw.compaction))
    ELSE Loaded(IF raw.prefix = "absent" THEN "BACKUP" ELSE raw.prefix,
                LoadDatasets(raw.datasets, <<>>),
                [i \in 1..Len(raw.compaction) |->
                    RetentionRule(raw.compaction[i].pattern,
                                  int(raw.compaction[i].keep))])

\* world holds the command and the file, listed the JobConfig once loaded
InitConfig ==
    /\ pc = "k_start"
    /\ world \in {[command |-> c, raw |-> r] :
                     c \in {"backup", "compact"}, r \in RawConfigs}
    /\ dry_run = FALSE /\ no_confirm = FALSE
    /\ datasets = <<>> /\ plans = <<>> /\ listed = <<>>
    /\ queue = <<>> /\ cur = 0
    /\ any_error = FALSE /\ sent_count = 0 /\ rollback_count = 0
    /\ asked = 0 /\ log = <<>> /\ result = -1
    /\ IdlePure /\ IdleSend /\ IdleCompact

\* except (ConfigError, FileNotFoundError): return 1
CmdConfigError ==
    /\ pc = "k_start"
    /\ load_job(world.raw).raises \in {"ConfigError", "FileNotFoundError"}
    /\ result' = 1 /\ pc' = "k_done"
    /\ UNCHANGED <<dry_run, no_confirm, datasets, world, plans, listed, queue,
                   cur, any_error, sent_count, rollback_count, asked, log,
                   pureVars, sendVars, compactVars>>

\* any other exception of load_job leaves cmd_backup and cmd_compact
CmdRaises ==
    /\ pc = "k_start"
    /\ load_job(world.raw).raises \notin {"", "ConfigError", "FileNotFoundError"}
    /\ pc' = "raised"
    /\ UNCHANGED <<backupVars, pureVars, sendVars, compactVars>>

\* the job starts with the loaded configuration: its first command is the
\* existence check of the first dataset; run_compact without rules sends
\* none
CmdRunsJob ==
    /\ pc = "k_start"
    /\ load_job(world.raw).raises = ""
    /\ listed' = <<load_job(world.raw)>>
    /\ log' = IF world.command = "compact" /\ load_job(world.raw).compaction = <<>>
              THEN <<>>
              ELSE <<Cmd("exists", load_job(world.raw).datasets[1])>>
    /\ pc' = "k_job"
    /\ UNCHANGED <<dry_run, no_confirm, datasets, world, plans, queue, cur,
                   any_error, sent_count, rollback_count, asked, result,
                   pureVars, sendVars, compactVars>>

NextConfig == CmdConfigError \/ CmdRaises \/ CmdRunsJob

SpecConfig == InitConfig /\ [][NextConfig]_vars

----------------------------------------------------------------------------
(* SpecJob: any one of the three entry points that take dry_run is called: *)
(* run_backup, run_compact or send_incremental                             *)

InitJob == InitBackup \/ InitCompact \/ InitSend

NextJob == Next \/ NextCompact \/ NextSend

SpecJob == InitJob /\ [][NextJob]_vars

----------------------------------------------------------------------------
(* Properties of find_common_snapshot (SpecCommon) and _plan_dataset (SpecPlan) *)

\* positions of the source history whose label the destination history holds
SharedPositions ==
    {i \in 1..Len(src_snaps) :
        \E j \in 1..Len(dst_snaps) : dst_snaps[j].name = src_snaps[i].name}

\* C1: find_common_snapshot returns a source snapshot whose label occurs in
\* the destination history; it returns None exactly when the histories
\* share no label; of several shared labels it returns the one at the
\* latest position of the source history.
C1_CommonIsNewestShared ==
    pc = "found" =>
        /\ (common = None) <=> (SharedPositions = {})
        /\ common # None =>
              /\ common.name \in Names(dst_snaps)
              /\ \E i \in SharedPositions :
                    /\ src_snaps[i] = common
                    /\ \A k \in SharedPositions : k <= i

C1_Witness ==
    /\ pc = "found"
    /\ Cardinality(SharedPositions) >= 2
    /\ common = src_snaps[Max(SharedPositions)]
    /\ common # src_snaps[Min(SharedPositions)]

\* both containers exist, the source has a snapshot and a label is shared
CommonFound ==
    /\ pc = "planned" /\ src_exists /\ dst_exists
    /\ Len(src_snaps) > 0 /\ SharedPositions # {}

CommonPosition == Max(SharedPositions)
CommonLabel == src_snaps[CommonPosition].name

\* the label of the destination's last snapshot differs from the common label
RollbackNeeded == dst_snaps[Len(dst_snaps)].name # CommonLabel

\* the source has snapshots after the common one
NewSnapshotsExist == CommonPosition < Len(src_snaps)

\* C2: once a common snapshot is found, the action follows from two facts,
\* rollback needed and new snapshots exist: neither gives up_to_date, only
\* new snapshots send, both rollback_and_send, only rollback rollback_only.
C2_Classification ==
    CommonFound =>
        plan.action =
            IF RollbackNeeded
            THEN (IF NewSnapshotsExist THEN "rollback_and_send" ELSE "rollback_only")
            ELSE (IF NewSnapshotsExist THEN "send" ELSE "up_to_date")

C2_Witness ==
    /\ CommonFound /\ RollbackNeeded /\ ~NewSnapshotsExist
    /\ plan.action = "rollback_only"

\* C3: when a rollback is decided, rollback_victims is the sequence of the
\* destination snapshots after the common snapshot's position in the
\* destination history, in history order; without a rollback it is empty.
C3_VictimsAfterCommon ==
    CommonFound =>
        IF plan.action \in {"rollback_and_send", "rollback_only"}
        THEN \E k \in 1..Len(dst_snaps) :
                /\ dst_snaps[k].name = CommonLabel
                /\ plan.rollback_victims =
                       [i \in 1..(Len(dst_snaps) - k) |-> dst_snaps[k + i]]
        ELSE plan.rollback_victims = <<>>

\* source [a,b,c], destination [a,b,d]: rollback_and_send, common b,
\* victims [d], one new snapshot c
C3_Witness ==
    /\ pc = "planned" /\ src_exists /\ dst_exists
    /\ src_snaps = SnapList(SRC, <<"a", "b", "c">>)
    /\ dst_snaps = SnapList(dataset_for(SRC), <<"a", "b", "d">>)
    /\ plan.action = "rollback_and_send"
    /\ plan.common = Snapshot(SRC, "b")
    /\ plan.rollback_victims = <<Snapshot(dataset_for(SRC), "d")>>
    /\ plan.latest = Snapshot(SRC, "c") /\ plan.new_snap_count = 1

\* C5: the early exits are tried in a fixed order and the first that
\* applies decides: source absent gives error, else destination absent
\* gives error, else an empty source gives skip, else no shared label gives
\* error; each of these plans has no common, no latest, count 0, no victims.
C5_EarlyExitOrder ==
    pc = "planned" =>
        /\ ~src_exists =>
              plan.action = "error" /\ plan.message = "Source dataset does not exist"
        /\ src_exists /\ ~dst_exists =>
              plan.action = "error" /\ plan.message = "Destination dataset does not exist"
        /\ src_exists /\ dst_exists /\ Len(src_snaps) = 0 =>
              plan.action = "skip" /\ plan.message = "Source has no snapshots"
        /\ src_exists /\ dst_exists /\ Len(src_snaps) > 0 /\ SharedPositions = {} =>
              /\ plan.action = "error"
              /\ plan.message = "No common snapshot found between source and destination"
        /\ ~CommonFound =>
              /\ plan.common = None /\ plan.latest = None
              /\ plan.new_snap_count = 0 /\ plan.rollback_victims = <<>>
        /\ CommonFound => plan.action \notin {"error", "skip"}

\* the destination is absent and the source is empty: the absent
\* destination decides
C5_Witness ==
    /\ pc = "planned" /\ src_exists /\ ~dst_exists /\ Len(src_snaps) = 0
    /\ plan.action = "error"
    /\ plan.message = "Destination dataset does not exist"

----------------------------------------------------------------------------
(* Properties of send_incremental (SpecSend) *)

Reaped(proc) == proc.state = "reaped"

\* C6: a send_incremental that is not a dry run returns normally exactly
\* when both children were started and both exited with code zero: with
\* both waited on, any non-zero exit code (the receive side's alone
\* included) ends in an ExecutorError.
C6_SuccessNeedsBothZero ==
    /\ (pc = "s_returned" /\ ~dry_run) =>
          /\ Reaped(send_proc) /\ send_proc.code = 0
          /\ Reaped(recv_proc) /\ recv_proc.code = 0
          /\ raised = NoError
    /\ (pc = "s_raised" /\ Reaped(send_proc) /\ Reaped(recv_proc)) =>
          /\ send_proc.code # 0 \/ recv_proc.code # 0
          /\ raised # NoError
    /\ (pc \in {"s_returned", "s_raised"} /\ Reaped(recv_proc)
            /\ send_proc.code = 0 /\ recv_proc.code # 0) => pc = "s_raised"

C6_Witness ==
    /\ pc = "s_raised" /\ Reaped(send_proc) /\ Reaped(recv_proc)
    /\ send_proc.code = 0 /\ recv_proc.code # 0
    /\ raised # NoError

----------------------------------------------------------------------------
(* Properties of run_backup (Spec) *)

LogOf(op, i) == {k \in 1..Len(log) : log[k].op = op /\ log[k].idx = i}

Declined == \E k \in 1..Len(log) : log[k].op = "prompt" /\ ~log[k].ok

ExecutionFailed ==
    \E k \in 1..Len(log) : log[k].op \in {"rollback", "send"} /\ ~log[k].ok

\* at planning time the common snapshot was the destination's newest:
\* the label of the destination's last snapshot is on the source, and no
\* later source snapshot has its label on the destination
HeadIsCommon(L) ==
    /\ L.sx /\ L.dx /\ Len(L.s) > 0 /\ Len(L.d) > 0
    /\ \E i \in 1..Len(L.s) :
          /\ L.s[i] = L.d[Len(L.d)]
          /\ \A k \in (i + 1)..Len(L.s) : L.s[k] \notin Range(L.d)

\* C4: when the common snapshot is the destination's newest, the plan has
\* no rollback and no victims, whatever destination-only snapshots precede
\* the common one: it is send if the source has newer snapshots and
\* up_to_date if not, and the run issues no rollback command for it.
C4_NoRollbackWhenCommonIsHead ==
    \A i \in 1..Len(plans) :
        HeadIsCommon(listed[i]) =>
            LET L == listed[i] IN
            /\ plans[i].action =
                  IF L.s[Len(L.s)] # L.d[Len(L.d)] THEN "send" ELSE "up_to_date"
            /\ plans[i].rollback_victims = <<>>
            /\ \A k \in 1..Len(log) :
                  ~(log[k].op = "rollback" /\ log[k].dst = plans[i].dst_dataset)

\* a destination-only snapshot before the common one, a send, no rollback
C4_Witness ==
    /\ pc = "done" /\ ~dry_run
    /\ \E i \in 1..Len(plans) :
          /\ HeadIsCommon(listed[i])
          /\ Len(listed[i].d) = 2 /\ listed[i].d[1] \notin Range(listed[i].s)
          /\ plans[i].action = "send"
          /\ LogOf("send", i) # {}

\* C7: with a non-empty dataset list and the confirmation accepted or not
\* asked, run_backup returns 0 exactly when no plan is an error and no
\* rollback and no transfer failed; skip and up_to_date plans alone leave
\* the result 0.
C7_ExitCode ==
    (pc = "done" /\ datasets # <<>> /\ ~Declined) =>
        /\ result \in {0, 1}
        /\ (result = 0) <=> (error_plans(plans) = <<>> /\ ~ExecutionFailed)
        /\ (\A i \in 1..Len(plans) : plans[i].action \in {"skip", "up_to_date"})
              => result = 0

\* no plan is an error, a transfer failed: the result is 1
C7_Witness ==
    /\ pc = "done" /\ datasets # <<>> /\ ~Declined
    /\ error_plans(plans) = <<>>
    /\ \E k \in 1..Len(log) : log[k].op = "send" /\ ~log[k].ok
    /\ \E i \in 1..Len(plans) : plans[i].action \in {"skip", "up_to_date"}
    /\ result = 1

\* C8: in the execution phase a failed rollback or transfer of one dataset
\* does not keep any other plan from its rollback and transfer: at the end
\* of a run that is not a dry run, every rollback plan has its rollback
\* command in the log, every send plan its transfer, and every
\* rollback_and_send plan whose rollback succeeded its transfer.
C8_FailuresDoNotStopOthers ==
    (pc = "done" /\ datasets # <<>> /\ ~Declined /\ ~dry_run) =>
        \A i \in 1..Len(plans) :
            /\ plans[i].action \in RollbackActions
                  => Cardinality(LogOf("rollback", i)) = 1
            /\ plans[i].action = "send"
                  => Cardinality(LogOf("send", i)) = 1
            /\ (plans[i].action = "rollback_and_send"
                    /\ \E k \in LogOf("rollback", i) : log[k].ok)
                  => Cardinality(LogOf("send", i)) = 1

\* a command of one plan fails, a later plan's command is still issued
C8_Witness ==
    /\ pc = "done"
    /\ \E j, k \in 1..Len(log) :
          /\ j < k
          /\ log[j].op \in {"rollback", "send"} /\ ~log[j].ok
          /\ log[k].op \in {"rollback", "send"} /\ log[k].idx # log[j].idx

\* C9: the transfer of a plan that requires a rollback is started only
\* after that plan's rollback command succeeded; after a failed rollback
\* no transfer of that plan is ever started.
C9_SendOnlyAfterRollback ==
    \A k \in 1..Len(log) :
        (log[k].op = "send" /\ plans[log[k].idx].action \in RollbackActions) =>
            /\ \E j \in 1..(k - 1) :
                  log[j].op = "rollback" /\ log[j].idx = log[k].idx /\ log[j].ok
            /\ \A j \in 1..Len(log) :
                  (log[j].op = "rollback" /\ log[j].idx = log[k].idx) => log[j].ok

C9_Witness ==
    \E j, k \in 1..Len(log) :
        /\ j < k
        /\ log[j].op = "rollback" /\ log[j].ok
        /\ log[k].op = "send" /\ log[k].idx = log[j].idx

\* past phase 2 of a run with datasets
PastConfirm == datasets # <<>> /\ pc \in {"rollback", "rollback_send", "send", "done"}

\* C10: run_backup prompts exactly once when a plan requires a rollback and
\* no_confirm is false, and never otherwise; the prompt comes after all
\* datasets are planned and before the first rollback command or transfer,
\* those of plain send plans included.
C10_OnePromptBeforeExecution ==
    /\ asked = Cardinality({k \in 1..Len(log) : log[k].op = "prompt"})
    /\ asked <= 1
    /\ PastConfirm =>
          (asked = 1 <=> (rollback_plans(plans) # <<>> /\ ~no_confirm))
    /\ ~PastConfirm => asked = 0
    /\ \A k \in 1..Len(log) :
          log[k].op = "prompt" => (k = 1 /\ Len(plans) = Len(datasets))
    /\ (log # <<>> /\ rollback_plans(plans) # <<>> /\ ~no_confirm
            /\ Len(plans) = Len(datasets))
          => log[1].op = "prompt"

\* a rollback plan and a plain send plan: the prompt precedes the send
C10_Witness ==
    /\ pc = "done" /\ asked = 1
    /\ \E i \in 1..Len(plans) :
          /\ plans[i].action = "send"
          /\ \E k \in LogOf("send", i) : k > 1 /\ log[1].op = "prompt"


\* the user's input at the confirmation was not a yes
Refused ==
    \E k \in 1..Len(log) :
        log[k].op = "prompt" /\ log[k].answer \notin {"y", "yes", "Y", " Yes "}

\* C11: when the user declines the rollback confirmation (any answer other
\* than y or yes, or the end of input), run_backup returns a non-zero code
\* at once and no rollback command and no transfer is run for any dataset,
\* the plain send plans included: the pools are as they were planned.
C11_DeclineRunsNothing ==
    Refused =>
        /\ pc = "done" /\ result # 0 /\ result # -1
        /\ \A k \in 1..Len(log) : log[k].op \notin {"rollback", "send"}
        /\ sent_count = 0 /\ rollback_count = 0
        /\ \A i \in 1..Len(plans) : world[plans[i].src_dataset] = listed[i]

\* the input ends at the prompt of a run with a rollback plan and a send plan
C11_Witness ==
    /\ Refused /\ pc = "done"
    /\ \E k \in 1..Len(log) : log[k].op = "prompt" /\ log[k].answer = EndOfInput
    /\ \E i, j \in 1..Len(plans) :
          plans[i].action = "send" /\ plans[j].action \in RollbackActions

----------------------------------------------------------------------------
(* Properties of _snapshots_to_delete (SpecDelete) *)

\* positions of the listing whose full name the rule matches
MatchedPositions(rule) ==
    {i \in 1..Len(snapshots) : matches(rule, full_name(snapshots[i]))}

\* the snapshots a rule selects on its own: the matched ones that have at
\* least keep matched snapshots after them in the listing (all, with keep 0)
CandidateSet(rule) ==
    LET M == MatchedPositions(rule)
    IN  {snapshots[i] : i \in {m \in M :
            Cardinality({j \in M : j > m}) >= rule.keep}}

\* C13: with a single rule of keep 0, _snapshots_to_delete returns every
\* snapshot whose full name the rule matches and no snapshot it does not
\* match.
C13_KeepZeroDeletesAllMatching ==
    (pc = "selected" /\ Len(rules) = 1 /\ rules[1].keep = 0) =>
        \A i \in 1..Len(snapshots) :
            snapshots[i] \in Range(to_delete) <=> i \in MatchedPositions(rules[1])

\* a keep-0 rule that matches some snapshots of the listing and not others
C13_Witness ==
    /\ pc = "selected" /\ Len(rules) = 1 /\ rules[1].keep = 0
    /\ Len(to_delete) = 2 /\ Len(snapshots) = 3

\* C14: with a single rule of keep N > 0 that matches c snapshots, exactly
\* max(0, c - N) snapshots are returned, they are the oldest matching ones
\* by position in the listing, and the newest min(N, c) matching snapshots
\* are not returned.
C14_KeepNewestN ==
    (pc = "selected" /\ Len(rules) = 1 /\ rules[1].keep > 0) =>
        LET M == MatchedPositions(rules[1])
            c == Cardinality(M)
            N == rules[1].keep
            newest == {m \in M : Cardinality({j \in M : j > m}) < N}
        IN  /\ Len(to_delete) = Max({0, c - N})
            /\ Cardinality(Range(to_delete)) = Len(to_delete)
            /\ Range(to_delete) = {snapshots[m] : m \in M \ newest}
            /\ Cardinality(newest) = Min({N, c})
            /\ \A m \in newest : snapshots[m] \notin Range(to_delete)
            /\ \A a, b \in M : (a < b /\ snapshots[b] \in Range(to_delete))
                                  => snapshots[a] \in Range(to_delete)

\* keep 1, two matching snapshots around one that does not match
C14_Witness ==
    /\ pc = "selected" /\ Len(rules) = 1 /\ rules[1].keep = 1
    /\ MatchedPositions(rules[1]) = {1, 3}
    /\ to_delete = <<snapshots[1]>>

\* what the first r rules select, each on its own
RECURSIVE Selections(_)
Selections(r) ==
    IF r = 0 THEN <<>>
    ELSE Append(Selections(r - 1), CandidateSet(rules[r]))

\* C15: the result holds no full name twice; a snapshot that several rules
\* select is there once, where the first rule that selects it put it (rule
\* order first, listing order within a rule); as a set the result is the
\* union of the rules' own selections.
C15_UnionWithoutDuplicates ==
    pc = "selected" =>
        LET n == Len(to_delete)
            selected == Selections(Len(rules))
            first == [a \in 1..n |->
                        Min({r \in 1..Len(rules) : to_delete[a] \in selected[r]})]
            pos == [a \in 1..n |->
                        Min({i \in 1..Len(snapshots) : snapshots[i] = to_delete[a]})]
        IN  /\ \A a, b \in 1..n :
                  full_name(to_delete[a]) = full_name(to_delete[b]) => a = b
            /\ Range(to_delete) = UNION {selected[r] : r \in 1..Len(rules)}
            /\ \A a \in 1..(n - 1) :
                  \/ first[a] < first[a + 1]
                  \/ first[a] = first[a + 1] /\ pos[a] < pos[a + 1]

\* both rules select the oldest snapshot, the second one more after it
C15_Witness ==
    /\ pc = "selected" /\ Len(rules) = 2 /\ Len(to_delete) = 2
    /\ to_delete[1] \in CandidateSet(rules[1]) \cap CandidateSet(rules[2])
    /\ to_delete[2] \in CandidateSet(rules[2]) \ CandidateSet(rules[1])

----------------------------------------------------------------------------
(* Properties of the dry run (SpecJob) and of run_compact (SpecCompact) *)

\* the commands that change a pool
ChangingCommands == {"rollback", "send", "destroy"}

\* C12: in dry-run mode no state-changing command reaches an executor:
\* run_backup runs no rollback and starts no transfer, send_incremental
\* spawns no send and no receive process, run_compact runs no destroy; the
\* pools stay as they were listed.
C12_DryRunChangesNothing ==
    dry_run =>
        /\ \A k \in 1..Len(log) : log[k].op \notin ChangingCommands
        /\ send_proc = NoProc /\ recv_proc = NoProc
        /\ \A i \in 1..Len(plans) : world[plans[i].src_dataset] = listed[i]
        /\ \A i \in 1..Len(delete_plans) :
              \A k \in 1..Len(delete_plans[i].to_delete) :
                  full_name(delete_plans[i].to_delete[k]) \in Range(dst_pool.lines)

\* a dry run of run_backup that went through a rollback and a transfer
C12_Witness ==
    /\ dry_run /\ pc = "done"
    /\ rollback_count > 0 /\ sent_count > 0
    /\ log = <<>>

\* a dry run of run_compact that had snapshots to delete
CompactDryRunDone ==
    dry_run /\ pc = "c_done" /\ delete_plans # <<>> /\ result = 0

\* a dry run of send_incremental that returned
SendDryRunDone == dry_run /\ pc = "s_returned"

\* phase 3 of run_compact was entered
Executed == delete_plans # <<>> /\ Len(deleted) = Len(delete_plans)

\* the destroy commands issued for delete plan i
Destroys(i) == {k \in 1..Len(log) : log[k].op = "destroy" /\ log[k].idx = i}

\* C16: in the execution phase of run_compact a destroy command is issued
\* for every snapshot of every dataset's deletion set, whatever destroy
\* failed before it, and a dataset's deleted count is the number of its
\* destroys that succeeded.
C16_EveryDestroyAttempted ==
    Executed =>
        /\ \A i \in 1..Len(delete_plans) :
              deleted[i] = Cardinality({k \in Destroys(i) : log[k].ok})
        /\ pc = "c_done" =>
              \A i \in 1..Len(delete_plans) :
                  /\ Cardinality(Destroys(i)) = Len(delete_plans[i].to_delete)
                  /\ \A n \in 1..Len(delete_plans[i].to_delete) :
                        \E k \in Destroys(i) :
                            log[k].from = delete_plans[i].to_delete[n]

\* a destroy fails, a later one of the same dataset and one of the next
\* dataset are still issued
C16_Witness ==
    /\ Executed /\ pc = "c_done" /\ Len(delete_plans) = 2
    /\ \E j, k \in Destroys(1) : j < k /\ ~log[j].ok /\ log[k].ok
    /\ deleted[1] = 1 /\ Len(delete_plans[1].to_delete) = 2
    /\ Destroys(2) # {}

\* C17: a run of run_compact that executes its deletions returns 1 if at
\* least one destroy command failed and 0 if all of them succeeded.
C17_CompactExitCode ==
    (Executed /\ pc = "c_done") =>
        result = IF \E k \in 1..Len(log) : log[k].op = "destroy" /\ ~log[k].ok
                 THEN 1 ELSE 0

\* the first destroy fails, the last one succeeds: the result is 1
C17_Witness ==
    /\ Executed /\ pc = "c_done" /\ result = 1
    /\ \E j, k \in 1..Len(log) :
          /\ j < k /\ \A n \in 1..Len(log) : n <= k
          /\ log[j].op = "destroy" /\ ~log[j].ok
          /\ log[k].op = "destroy" /\ log[k].ok

\* every destroy succeeded: the result is 0
AllDestroyed ==
    /\ Executed /\ pc = "c_done" /\ result = 0
    /\ \E k \in 1..Len(log) : log[k].op = "destroy"

\* the destination datasets of the configuration
Configured == {dataset_for(datasets[i]) : i \in 1..Len(datasets)}

\* C18: every destroy command of run_compact targets a snapshot whose
\* dataset is exactly the destination dataset of a configured dataset;
\* snapshots of child datasets, which the recursive listing returns, and of
\* datasets that are not configured are never destroyed.
C18_OnlyConfiguredDatasets ==
    /\ \A k \in 1..Len(log) :
          log[k].op = "destroy" =>
              /\ log[k].from.dataset \in Configured
              /\ log[k].from.dataset = log[k].dst
    /\ \A i \in 1..Len(delete_plans) :
          \A n \in 1..Len(delete_plans[i].to_delete) :
              /\ delete_plans[i].dst_dataset \in Configured
              /\ delete_plans[i].to_delete[n].dataset = delete_plans[i].dst_dataset

\* .* with keep 0 emptied the configured dataset; the snapshot of its child
\* and those of the dataset that is not configured are still there
C18_Witness ==
    /\ Executed /\ pc = "c_done" /\ result = 0
    /\ datasets = <<D1>>
    /\ \E k \in 1..Len(log) : log[k].op = "destroy"
    /\ \A l \in Range(dst_pool.lines) : BeforeAt(l) # dataset_for(D1)
    /\ \E l \in Range(dst_pool.lines) : BeforeAt(l) = Child(dataset_for(D1))
    /\ \E l \in Range(dst_pool.lines) : BeforeAt(l) = dataset_for(D2)

----------------------------------------------------------------------------
(* Properties of rule qualification (SpecMatch) *)

\* C19: a rule qualified for one destination dataset never matches a
\* snapshot of another dataset, and matches a snapshot of its own dataset
\* exactly when the configured pattern full-matches the snapshot's label,
\* patterns with a top-level alternation included.
C19_QualifiedMatchesOwnLabels ==
    pc = "m_matched" =>
        (matched <=>
            /\ snapshots[1].dataset = dataset_for(datasets[1])
            /\ re_fullmatch(compaction[1].pattern, snapshots[1].name))

\* d1|w.* qualified for a dataset does not match that dataset's snapshot w1
AlternationMissesOwnLabel ==
    /\ pc = "m_matched" /\ ~matched
    /\ Bar \in Range(compaction[1].pattern)
    /\ snapshots[1].dataset = dataset_for(datasets[1])
    /\ re_fullmatch(compaction[1].pattern, snapshots[1].name)

\* d1|.* qualified for one dataset matches a snapshot of another dataset
AlternationCrossMatches ==
    /\ pc = "m_matched" /\ matched
    /\ Bar \in Range(compaction[1].pattern)
    /\ snapshots[1].dataset # dataset_for(datasets[1])

\* without a bar in the configured pattern the qualified rule matches its
\* own dataset's labels and nothing else
NoBarQualifiedMatchesOwnLabels ==
    (pc = "m_matched" /\ Bar \notin Range(compaction[1].pattern)) =>
        (matched <=>
            /\ snapshots[1].dataset = dataset_for(datasets[1])
            /\ re_fullmatch(compaction[1].pattern, snapshots[1].name))

----------------------------------------------------------------------------
(* Properties of the planning phase of run_backup (Spec) *)

\* the planning of dataset i failed: a dataset is missing or the histories
\* share no label
PlanningFailed(L) ==
    \/ ~L.sx
    \/ ~L.dx
    \/ Len(L.s) > 0 /\ Range(L.s) \cap Range(L.d) = {}

\* C20: in the planning phase of run_backup a failure while planning one
\* dataset (source or destination missing, no common snapshot, a listing
\* that fails after the existence check passed) becomes that dataset's
\* error plan and every other configured dataset is still planned: no
\* planning failure leaves run_backup as an exception.
C20_PlanningFailuresAreRecorded ==
    /\ pc # "raised"
    /\ \A i \in 1..Len(plans) :
          PlanningFailed(listed[i]) => plans[i].action = "error"
    /\ (datasets # <<>> /\ pc # "start") => Len(plans) = Len(datasets)

\* the first dataset is planned, the listing of the second fails: the
\* ExecutorError leaves run_backup with no plan recorded for the second
ListingFailureEscapes ==
    /\ pc = "raised"
    /\ Len(datasets) = 2 /\ Len(plans) = 1

\* when every listing succeeds, each planning failure is an error plan
\* and every dataset is planned
PlanningFailuresAreRecordedIfListed ==
    pc # "raised" =>
        /\ \A i \in 1..Len(plans) :
              PlanningFailed(listed[i]) => plans[i].action = "error"
        /\ (datasets # <<>> /\ pc # "start") => Len(plans) = Len(datasets)

----------------------------------------------------------------------------
(* Properties of send_incremental's processes (SpecSend, SpecSendLive) *)

\* the receive process is gone while the send process still has part of
\* its stream to write
RecvExitedEarly ==
    /\ recv_proc.state \in {"exited", "reaped"}
    /\ send_proc.state = "running" /\ to_write > 0

\* the orchestrator waits on a process
Waiting == pc \in {"s_wait_recv", "s_wait_send"}

\* C21: once both processes are started the orchestrator closes its handle
\* on the send process's output before it waits on either of them, so
\* whenever the receive process exits before the stream is written out,
\* send_incremental eventually raises its ExecutorError instead of waiting
\* forever on a send process blocked on the pipe.
C21_EarlyRecvExitEndsInFailure ==
    /\ [](Waiting => ~pipe_open)
    /\ (RecvExitedEarly ~> pc = "s_raised")

\* the receive process exited first, SIGPIPE ended the send process, and
\* the call raised
C21_Witness ==
    /\ pc = "s_raised"
    /\ send_rc = SIGPIPE /\ recv_rc # 0
    /\ to_write > 0

\* send_incremental has returned or raised
Left == pc \in {"s_returned", "s_raised"}

\* C22: on every path by which send_incremental returns or raises, every
\* process it started has been waited on: both when both started, and the
\* send process, killed, when the receive process failed to start.
C22_NoProcessLeftBehind ==
    Left =>
        /\ send_proc.state \in {"none", "reaped"}
        /\ recv_proc.state \in {"none", "reaped"}
        /\ recv_proc.state = "reaped" => send_proc.state = "reaped"
        /\ (send_proc.state # "none" /\ recv_proc.state = "none") =>
              /\ send_proc.state = "reaped"
              /\ raised.cmd = "recv" /\ raised.returncode = 1

\* the receive process failed to start: the running send process was
\* killed and reaped before the error was raised
C22_Witness ==
    /\ pc = "s_raised"
    /\ recv_proc.state = "none"
    /\ send_proc = [state |-> "reaped", code |-> -9]
    /\ raised.cmd = "recv"

\* C23: if the send process cannot be started, no receive process is ever
\* started and the ExecutorError raised names the send command and carries
\* the spawn failure's message.
C23_SendSpawnFailure ==
    /\ recv_proc.state # "none" => send_proc.state # "none"
    /\ (Left /\ ~dry_run /\ send_proc.state = "none") =>
          /\ pc = "s_raised"
          /\ recv_proc = NoProc
          /\ raised.cmd = "send"
          /\ raised.stderr = <<"OSError">>

\* the send process did not start
C23_Witness ==
    /\ pc = "s_raised" /\ ~dry_run
    /\ send_proc = NoProc /\ recv_proc = NoProc
    /\ raised.cmd = "send"

\* the ExecutorError of the exit-code check was raised
ExitCodeError == pc = "s_raised" /\ raised.cmd = "send|recv"

\* C27: when either process exits non-zero, the ExecutorError raised
\* carries the worse of the two exit codes, which is therefore non-zero,
\* for every exit code a process can report, the negative codes of a
\* process killed by a signal included, and its message cites both codes.
C27_ErrorCarriesNonZeroCode ==
    ExitCodeError =>
        /\ raised.returncode \in {send_rc, recv_rc}
        /\ raised.returncode # 0
        /\ raised.stderr = <<send_rc, recv_rc>>

\* the send process was killed by a signal, the receive process read the
\* end of the stream and exited 0: the error raised carries code 0
SignalCodeMasked ==
    /\ ExitCodeError
    /\ send_rc < 0 /\ recv_rc = 0
    /\ raised.returncode = 0

\* with no negative exit code the error carries the larger, non-zero code
NonNegativeCodesAreNotMasked ==
    (ExitCodeError /\ send_rc >= 0 /\ recv_rc >= 0) =>
        /\ raised.returncode \in {send_rc, recv_rc}
        /\ raised.returncode # 0
        /\ raised.stderr = <<send_rc, recv_rc>>

----------------------------------------------------------------------------
(* Properties of Snapshot.parse (SpecParse) *)

\* the text given to Snapshot.parse
Text == dst_pool.lines[1]

\* the text has no "@", or nothing after its first "@"
NotASnapshot ==
    \A i \in 1..Len(Text) :
        Text[i] = "@" => (i = Len(Text) /\ \A j \in 1..(i - 1) : Text[j] # "@")

\* C24: Snapshot.parse fails on every string without "@" and on every
\* string with nothing after its first "@"; for every string it accepts,
\* the parsed snapshot's full_name is that string and its dataset is the
\* part before the first "@".
C24_ParseRoundTrip ==
    /\ pc = "p_raised" => NotASnapshot
    /\ pc = "p_parsed" =>
          /\ ~NotASnapshot
          /\ full_name(snapshots[1]) = Text
          /\ \A j \in 1..Len(snapshots[1].dataset) : snapshots[1].dataset[j] # "@"
          /\ snapshots[1].name # <<>>

\* a text with two "@" is parsed: the second one belongs to the name
C24_Witness ==
    /\ pc = "p_parsed"
    /\ Text = <<"p", "@", "x", "@">>
    /\ snapshots[1] = [dataset |-> <<"p">>, name |-> <<"x", "@">>]

\* a text with nothing after its "@" is refused
ParseRefusesEmptyName == pc = "p_raised" /\ Text = <<"p", "@">>

----------------------------------------------------------------------------
(* Properties of run_compact: retention and absent datasets (SpecCompact) *)

\* the run executed its deletions and every destroy succeeded
Succeeded == pc = "c_done" /\ Executed /\ result = 0

\* the snapshots of a destination dataset as phase 1 listed them
ListedSnapshots(d) == list_snapshots(d, world[1])

\* the snapshots of dataset d whose label matches the pattern of rule r,
\* oldest first
LabelMatches(d, r) ==
    SelectSeq(ListedSnapshots(d), LAMBDA s : matches(r, s.name))

\* the r.keep newest of them, all of them when there are fewer
Retained(d, r) ==
    LET m == LabelMatches(d, r)
    IN  {m[i] : i \in {j \in 1..Len(m) : j > Len(m) - r.keep}}

StillExists(s) == full_name(s) \in Range(dst_pool.lines)

\* rule q, qualified for dataset d, selects snapshot s on its own: it
\* matches s and at least q.keep later snapshots of the listing
SelectedBy(d, q, s) ==
    LET snaps == ListedSnapshots(d)
        rule == qualified_rule(d, q)
        M == {i \in 1..Len(snaps) : matches(rule, full_name(snaps[i]))}
    IN  \E i \in M : /\ snaps[i] = s
                     /\ Cardinality({j \in M : j > i}) >= q.keep

\* the configured destination datasets the pool held when it was listed
Present == {d \in Configured : d \in world[1].exists}

RetainedSnapshotDestroyed ==
    /\ Succeeded /\ Len(compaction) = 2 /\ compaction[1].keep = 1
    /\ \E d \in Present : \E s \in Retained(d, compaction[1]) : ~StillExists(s)

\* C26: in run_compact a configured dataset whose destination dataset does
\* not exist is skipped: it is not listed, gets no delete plan and no
\* destroy command and does not make the result non-zero, and the datasets
\* that exist are still listed and planned (the plan is compared when phase
\* 1 has ended; nothing after it assigns delete_plans).
C26_AbsentDatasetSkipped ==
    /\ pc = "raised" => \E d \in Configured : d \in dst_pool.exists
    /\ (pc = "c_done" /\ result # 0) =>
          \/ Declined
          \/ \E k \in 1..Len(log) : log[k].op = "destroy" /\ ~log[k].ok
    /\ world # <<>> =>
          /\ \A d \in Configured \ Present :
                /\ d \notin Range(listed)
                /\ \A i \in 1..Len(delete_plans) : delete_plans[i].dst_dataset # d
                /\ \A k \in 1..Len(log) : log[k].op = "destroy" => log[k].dst # d
          /\ \A d \in Present :
                /\ d \in Range(listed)
                /\ (pc = "c_planned"
                      /\ DeletionsFor(d, world[1], compaction) # <<>>) =>
                      \E i \in 1..Len(delete_plans) :
                          /\ delete_plans[i].dst_dataset = d
                          /\ delete_plans[i].to_delete
                                = DeletionsFor(d, world[1], compaction)

\* the destination of D2, configured first, does not exist; that of D1 is
\* listed and compacted and the result is 0
C26_Witness ==
    /\ pc = "c_done" /\ result = 0 /\ Executed
    /\ datasets = <<D2, D1>>
    /\ dataset_for(D2) \notin world[1].exists
    /\ listed = <<dataset_for(D1)>>
    /\ \E k \in 1..Len(log) :
          log[k].op = "destroy" /\ log[k].ok /\ log[k].dst = dataset_for(D1)

----------------------------------------------------------------------------
(* Properties of _plan_dataset on repeated labels and on reordered         *)
(* destinations (SpecPlanDup, SpecPlan)                                     *)

Sends == pc = "planned" /\ plan.action \in {"send", "rollback_and_send"}

\* C28: in every plan with action send or rollback_and_send, new_snap_count
\* is the number of source snapshots after the one find_common_snapshot
\* returns, latest is the newest source snapshot and latest is not the
\* common snapshot, also when a label occurs more than once in the source
\* listing.
C28_NewSnapshotsFollowCommon ==
    Sends =>
        /\ plan.new_snap_count = Len(src_snaps) - CommonPosition
        /\ plan.latest = src_snaps[Len(src_snaps)]
        /\ plan.latest # plan.common

\* source a, b, a and destination a: the common snapshot is the newest one,
\* yet two snapshots are planned to be sent, from a to a
RepeatedLabelSendsFromOlder ==
    /\ Sends
    /\ Names(dst_snaps) = {"a"}
    /\ [i \in 1..Len(src_snaps) |-> src_snaps[i].name] = <<"a", "b", "a">>
    /\ CommonPosition = 3
    /\ plan.new_snap_count = 2
    /\ plan.latest = plan.common

\* with no label repeated in the source listing the statement of C28 holds
NewSnapshotsFollowCommonIfDistinct ==
    Distinct([i \in 1..Len(src_snaps) |-> src_snaps[i].name])
        => C28_NewSnapshotsFollowCommon

\* a rollback is planned
Rollbacks ==
    pc = "planned" /\ plan.action \in {"rollback_only", "rollback_and_send"}

\* C29: whenever _plan_dataset requires a rollback, every rollback victim
\* is a destination snapshot whose label occurs nowhere in the source
\* listing, whatever the order of the destination listing.
C29_VictimsUnknownToSource ==
    Rollbacks =>
        \A i \in 1..Len(plan.rollback_victims) :
            /\ plan.rollback_victims[i] \in Range(dst_snaps)
            /\ plan.rollback_victims[i].name \notin Names(src_snaps)

\* source a, b and destination b, a: the common snapshot is b and the
\* victim is the destination's a, a label the source holds
VictimLabelOnSource ==
    /\ Rollbacks
    /\ [i \in 1..Len(src_snaps) |-> src_snaps[i].name] = <<"a", "b">>
    /\ [i \in 1..Len(dst_snaps) |-> dst_snaps[i].name] = <<"b", "a">>
    /\ plan.common.name = "b"
    /\ plan.rollback_victims = <<Snapshot(dataset_for(SRC), "a")>>

\* the labels both listings hold come in the same order in both
SameOrder ==
    \A i, j \in 1..Len(src_snaps) : \A k, l \in 1..Len(dst_snaps) :
        (i < j /\ src_snaps[i].name = dst_snaps[k].name
               /\ src_snaps[j].name = dst_snaps[l].name) => k < l

\* when the two listings agree on the order of their shared labels, no
\* victim's label occurs in the source listing
VictimsUnknownToSourceIfSameOrder == SameOrder => C29_VictimsUnknownToSource

----------------------------------------------------------------------------
(* Properties of run_backup's summary (Spec) *)

\* the run reached phase 4
Summarised == pc = "done" /\ datasets # <<>> /\ ~Declined

\* a rollback or a transfer of plan i failed
FailedInExecution(i) ==
    \E k \in 1..Len(log) :
        log[k].op \in {"rollback", "send"} /\ log[k].idx = i /\ ~log[k].ok

\* dataset i ended in error: in planning, in rollback or in transfer
EndedInError(i) == plans[i].action = "error" \/ FailedInExecution(i)

\* the plans whose transfer succeeded and those whose rollback succeeded
SentPlans ==
    {i \in 1..Len(plans) :
        /\ plans[i].action \in {"send", "rollback_and_send"}
        /\ ~FailedInExecution(i)}

RolledBackPlans ==
    {i \in 1..Len(plans) :
        /\ plans[i].action \in RollbackActions
        /\ \A k \in LogOf("rollback", i) : log[k].ok}

\* dataset i is counted in one of the summary's categories
Counted(i) ==
    \/ i \in SentPlans \/ i \in RolledBackPlans
    \/ plans[i].action \in {"up_to_date", "error", "skip"}

\* C30: the error count of run_backup's summary is the number of datasets
\* that ended in error, in planning, in rollback or in transfer, and every
\* configured dataset is counted in at least one category of the summary.
C30_SummaryCountsEveryDataset ==
    Summarised =>
        /\ SummaryCounts(sent_count, rollback_count, plans).errors
              = Cardinality({i \in 1..Len(plans) : EndedInError(i)})
        /\ \A i \in 1..Len(plans) : Counted(i)

\* the transfer of a send plan failed: the result is 1, the summary counts
\* no error and the dataset is in none of its categories
FailedTransferUncounted ==
    /\ Summarised /\ result = 1
    /\ SummaryCounts(sent_count, rollback_count, plans).errors = 0
    /\ \E i \in 1..Len(plans) :
          plans[i].action = "send" /\ FailedInExecution(i) /\ ~Counted(i)

\* what the summary does count: the transfers and rollbacks that succeeded,
\* the plans that are errors, and every dataset whose execution did not fail
SummaryCountsPlansAndSuccesses ==
    Summarised =>
        /\ sent_count = Cardinality(SentPlans)
        /\ rollback_count = Cardinality(RolledBackPlans)
        /\ SummaryCounts(sent_count, rollback_count, plans).errors
              = Cardinality({i \in 1..Len(plans) : plans[i].action = "error"})
        /\ \A i \in 1..Len(plans) : Counted(i) \/ FailedInExecution(i)

----------------------------------------------------------------------------
(* Properties of the commands of one run (SpecJob) *)

\* the commands of the log with operation op
Commands(op) == {k \in 1..Len(log) : log[k].op = op}

\* C31: nothing is repeated within one run: run_backup issues at most one
\* rollback command and starts at most one transfer per destination
\* dataset, and run_compact issues at most one destroy command per
\* snapshot, also when the dataset list names a dataset twice.
C31_NothingRepeated ==
    /\ \A j, k \in Commands("rollback") : log[j].dst = log[k].dst => j = k
    /\ \A j, k \in Commands("send") : log[j].dst = log[k].dst => j = k
    /\ \A j, k \in Commands("destroy") : log[j].from = log[k].from => j = k

\* datasets d1, d1: the destination of d1 is rolled back twice and two
\* transfers to it are started
RollbackAndTransferRepeated ==
    /\ pc = "done" /\ datasets = <<D1, D1>>
    /\ Cardinality(Commands("rollback")) = 2
    /\ Cardinality(Commands("send")) = 2

\* datasets d1, d1 in run_compact: the second delete plan destroys the
\* snapshots of the first again, and fails
DestroyRepeated ==
    /\ pc = "c_done" /\ datasets = <<D1, D1>> /\ result = 1
    /\ \E j, k \in Commands("destroy") :
          j < k /\ log[j].from = log[k].from /\ log[j].ok /\ ~log[k].ok

\* with no dataset named twice nothing is repeated
NothingRepeatedIfDistinct == Distinct(datasets) => C31_NothingRepeated

----------------------------------------------------------------------------
(* Properties of _plan_dataset called twice (SpecReplan) *)

----------------------------------------------------------------------------
(* Properties of run_compact's confirmation (SpecCompact) *)

\* run_compact is past its phase 2 with something to delete
PastCompactConfirm ==
    pc \in {"c_execute", "c_done"} /\ delete_plans # <<>> /\ ~dry_run

\* C33: a run of run_compact that is not a dry run, has a non-empty
\* deletion plan and no_confirm false asks the user exactly once, after the
\* deletion sets of all datasets are computed and before the first destroy
\* command; after an answer other than y or yes, or the end of input, no
\* destroy command is issued and the result is 1. The plan is compared in
\* the state the prompt leaves, where the prompt is the only entry of log.
C33_OneCompactPrompt ==
    /\ asked = Cardinality(Commands("prompt"))
    /\ (PastCompactConfirm /\ ~no_confirm) =>
          /\ asked = 1
          /\ log[1].op = "prompt"
          /\ Len(log) = 1 =>
                delete_plans = PlanDeletions(datasets, world[1], compaction)
    /\ Refused =>
          /\ pc = "c_done" /\ result = 1
          /\ Commands("destroy") = {}
          /\ dst_pool = world[1]

\* the prompt was answered yes and two datasets were compacted after it
C33_Witness ==
    /\ pc = "c_done" /\ asked = 1 /\ log[1].op = "prompt" /\ log[1].ok
    /\ Len(delete_plans) = 2
    /\ \E j, k \in Commands("destroy") : log[j].idx = 1 /\ log[k].idx = 2

\* the input ended at the prompt: nothing was destroyed
CompactPromptRefused ==
    /\ pc = "c_done" /\ result = 1 /\ Refused
    /\ log[1].answer = EndOfInput /\ Len(log) = 1 /\ Len(delete_plans) = 2

----------------------------------------------------------------------------
(* Properties of the bootstrap command (SpecPlan) *)

\* the destination is absent and the source has a snapshot
DestinationMissing == src_exists /\ ~dst_exists /\ Len(src_snaps) > 0

\* both datasets exist, the source has a snapshot, no label is shared
NothingShared ==
    src_exists /\ dst_exists /\ Len(src_snaps) > 0 /\ SharedPositions = {}

\* C34: a plan carries a bootstrap command exactly when it is an error for
\* an absent destination with a source that has a snapshot, or an error
\* for no common snapshot; the command names the source's oldest snapshot
\* and the destination dataset, and no other plan carries one.
C34_BootstrapHint ==
    pc = "planned" =>
        /\ plan.bootstrap_cmd # NoCmd <=> (DestinationMissing \/ NothingShared)
        /\ plan.bootstrap_cmd # NoCmd =>
              /\ plan.action = "error"
              /\ plan.message =
                    IF DestinationMissing
                    THEN "Destination dataset does not exist"
                    ELSE "No common snapshot found between source and destination"
              /\ plan.bootstrap_cmd =
                    <<"zfs send", SRC, src_snaps[1].name,
                      "zfs recv -F", dataset_for(SRC)>>
        /\ plan.action # "error" => plan.bootstrap_cmd = NoCmd

\* no common snapshot, source b, c: the command sends b, the oldest
C34_Witness ==
    /\ pc = "planned" /\ NothingShared
    /\ Len(src_snaps) = 2 /\ src_snaps[1].name = "b" /\ src_snaps[2].name = "c"
    /\ plan.bootstrap_cmd =
          <<"zfs send", SRC, "b", "zfs recv -F", dataset_for(SRC)>>

\* the destination is absent and the source has snapshots: a command is
\* attached; an absent source or an empty source gives an error without one
HintForMissingDestination ==
    /\ pc = "planned" /\ DestinationMissing /\ plan.bootstrap_cmd # NoCmd

ErrorWithoutHint ==
    /\ pc = "planned" /\ plan.action = "error" /\ plan.bootstrap_cmd = NoCmd
    /\ src_exists /\ ~dst_exists

----------------------------------------------------------------------------
(* Properties of the configuration (SpecConfig) *)

\* the file has one of the errors load_job tests for
TestedError(raw) ==
    \/ raw.file # "mapping"
    \/ raw.source_pool = "" \/ raw.destination_pool = ""
    \/ raw.prefix = ""
    \/ raw.datasets = <<>>
    \/ \E i \in 1..Len(raw.datasets) : raw.datasets[i] \in {"null", "", "None"}
    \/ \E i \in 1..Len(raw.compaction) :
          \/ raw.compaction[i].pattern \in {"absent", "[unclosed"}
          \/ raw.compaction[i].keep \in {"absent", "-1"}

\* a rule whose keep is not a number
KeepNotANumber(raw) ==
    \E i \in 1..Len(raw.compaction) : raw.compaction[i].keep = "many"

\* a JobConfig has a non-empty prefix, a non-empty list of non-empty
\* dataset names and rules of keep >= 0 only
WellFormed(config) ==
    /\ config.prefix # ""
    /\ config.datasets # <<>>
    /\ \A i \in 1..Len(config.datasets) : config.datasets[i] \notin {"", " "}
    /\ \A i \in 1..Len(config.compaction) : config.compaction[i].keep >= 0

\* C35: a configuration error makes cmd_backup and cmd_compact return 1
\* before any command is sent to an executor, and every JobConfig load_job
\* returns has a non-empty prefix, a non-empty list of non-empty dataset
\* names and only rules of keep >= 0.
C35_ConfigErrorsReturnOne ==
    /\ (pc # "k_start" /\ (TestedError(world.raw) \/ KeepNotANumber(world.raw)))
          => (pc = "k_done" /\ result = 1 /\ log = <<>>)
    /\ pc = "k_job" => WellFormed(listed[1])

\* keep: many in an otherwise valid file: the ValueError of int() leaves
\* cmd_backup, which returns nothing
KeepNotANumberEscapes ==
    /\ pc = "raised" /\ world.command = "backup"
    /\ ~TestedError(world.raw) /\ KeepNotANumber(world.raw)
    /\ log = <<>> /\ result = -1

\* in a file where every keep is a number, the errors load_job tests for
\* make both commands return 1 before any command; no command is sent
\* without a loaded JobConfig, and every loaded JobConfig is well formed
TestedErrorsReturnOne ==
    /\ (pc # "k_start" /\ TestedError(world.raw) /\ ~KeepNotANumber(world.raw))
          => (pc = "k_done" /\ result = 1 /\ log = <<>>)
    /\ log # <<>> => pc = "k_job"
    /\ pc = "k_job" =>
          /\ WellFormed(listed[1])
          /\ ~TestedError(world.raw) /\ ~KeepNotANumber(world.raw)

\* a negative keep after a valid rule: return 1, no command
NegativeKeepReturnsOne ==
    /\ pc = "k_done" /\ result = 1 /\ log = <<>>
    /\ Len(world.raw.compaction) = 2 /\ world.raw.compaction[2].keep = "-1"
    /\ world.raw.compaction[2].pattern = ".*"
    /\ world.raw.datasets = <<"d1">> /\ world.raw.prefix = "BACKUP"
    /\ world.raw.source_pool # "" /\ world.raw.destination_pool # ""

----------------------------------------------------------------------------
(* Properties of a second planning after run_backup (Spec) *)

\* a rollback or a transfer to the destination of dataset ds failed
DatasetFailed(ds) ==
    \E k \in 1..Len(log) :
        log[k].op \in {"rollback", "send"} /\ log[k].dst = dataset_for(ds) /\ ~log[k].ok

\* the plan _plan_dataset makes for dataset ds on the pools as they are now
PlannedAgain(ds) ==
    _plan_dataset(ds, dataset_for(ds), world[ds].sx, world[ds].dx,
                  SnapList(ds, world[ds].s), SnapList(dataset_for(ds), world[ds].d))

\* plan i had something to do, and all of it was done without error
Completed(i) ==
    /\ pc = "done" /\ ~dry_run /\ ~Declined
    /\ plans[i].action \in RollbackActions \cup {"send"}
    /\ ~DatasetFailed(plans[i].src_dataset)

\* C36: with the source unchanged and the destination changed by the run's
\* own commands only, after a run of run_backup that is not a dry run has
\* completed a dataset's rollback and transfer without error, planning the
\* dataset again yields up_to_date: the destination's newest label is the
\* source's newest and a second run would issue no rollback and no
\* transfer for it.
C36_BackupConverges ==
    \A i \in 1..Len(plans) :
        Completed(i) =>
            LET ds == plans[i].src_dataset
                p == PlannedAgain(ds)
            IN  /\ p.action = "up_to_date"
                /\ world[ds].d[Len(world[ds].d)] = world[ds].s[Len(world[ds].s)]
                /\ rollback_plans(<<p>>) = <<>> /\ send_plans(<<p>>) = <<>>
                /\ p.rollback_victims = <<>> /\ p.latest = None

\* a dataset was rolled back and sent to, and a second planning finds it
\* up to date
C36_Witness ==
    \E i \in 1..Len(plans) :
        /\ Completed(i) /\ plans[i].action = "rollback_and_send"
        /\ listed[i].d # world[plans[i].src_dataset].d
        /\ PlannedAgain(plans[i].src_dataset).action = "up_to_date"

----------------------------------------------------------------------------
(* Properties of the arguments of run_backup's commands (Spec) *)

\* the position of a label in a listing of labels, 0 if it is not there
PositionIn(h, label) ==
    IF \E i \in 1..Len(h) : h[i] = label
    THEN Min({i \in 1..Len(h) : h[i] = label}) ELSE 0

\* C37: every rollback command of run_backup targets the destination
\* dataset of the planned dataset at a label that was in the destination's
\* listing when the dataset was planned, and every incremental send uses
\* two snapshots of the source dataset, the common one as the start of the
\* range.
C37_CommandsMatchPlans ==
    \A k \in 1..Len(log) :
        /\ log[k].op = "rollback" =>
              LET i == log[k].idx IN
              /\ log[k].dst = dataset_for(datasets[i])
              /\ log[k].from.dataset = dataset_for(datasets[i])
              /\ log[k].from.name \in Range(listed[i].d)
        /\ log[k].op = "send" =>
              LET i == log[k].idx
                  L == listed[i]
              IN  /\ log[k].dst = dataset_for(datasets[i])
                  /\ log[k].from.dataset = datasets[i]
                  /\ log[k].to.dataset = datasets[i]
                  /\ PositionIn(L.s, log[k].from.name) > 0
                  /\ PositionIn(L.s, log[k].from.name)
                        < PositionIn(L.s, log[k].to.name)
                  /\ log[k].from =
                        find_common_snapshot(SnapList(datasets[i], L.s),
                                             SnapList(dataset_for(datasets[i]), L.d))

\* a rollback to the common label a of a destination a, c and the send
\* from a to b that follows it
C37_Witness ==
    \E j, k \in 1..Len(log) :
        /\ j < k /\ log[j].idx = log[k].idx
        /\ listed[log[j].idx].d = <<"a", "c">>
        /\ log[j].op = "rollback" /\ log[j].ok
        /\ log[j].from = Snapshot(dataset_for(D1), "a")
        /\ log[k].op = "send" /\ log[k].ok
        /\ log[k].from = Snapshot(D1, "a") /\ log[k].to = Snapshot(D1, "b")

----------------------------------------------------------------------------
(* Properties of the rollback victims shown before the prompt (Spec) *)

\* this step is the successful rollback of plan i
RollbackStep(i) ==
    /\ pc = "rollback" /\ ~dry_run /\ queue # <<>> /\ Head(queue) = i
    /\ rollback_count' = rollback_count + 1

\* the labels the step removes from the destination of dataset ds
Removed(ds) == Range(world[ds].d) \ Range(world'[ds].d)

\* C38: if the destination's history is at the rollback as it was listed
\* at planning, the snapshots a dataset's rollback command removes are
\* exactly the rollback victims of its plan, the ones shown before the
\* prompt: nothing is destroyed that was not shown and everything shown is
\* destroyed.
C38_RollbackRemovesShownVictims ==
    [][\A i \in 1..Len(plans) :
          LET ds == plans[i].src_dataset IN
          (RollbackStep(i) /\ world[ds].d = listed[i].d) =>
              /\ Removed(ds) = Names(plans[i].rollback_victims)
              /\ Cardinality(Removed(ds)) = Len(plans[i].rollback_victims)
              /\ \A n \in 1..Len(plans[i].rollback_victims) :
                    plans[i].rollback_victims[n].dataset = plans[i].dst_dataset
              /\ world'[ds].d = SubSeq(world[ds].d, 1, Len(world'[ds].d))
              /\ world'[ds].s = world[ds].s]_vars

\* a rollback_only plan with one victim was executed: the destination is
\* its listing without the victim
C38_Witness ==
    /\ pc = "done" /\ ~dry_run
    /\ \E i \in 1..Len(plans) :
          /\ plans[i].action = "rollback_only"
          /\ Len(plans[i].rollback_victims) = 1
          /\ \E k \in LogOf("rollback", i) : log[k].ok
          /\ listed[i].d = Append(world[plans[i].src_dataset].d,
                                  plans[i].rollback_victims[1].name)


----------------------------------------------------------------------------
(* The single-file distribution against the package (SpecSingleFile)        *)

\* the answers the user has given and the responses of the executor to the
\* destroys, in the order the single-file run met them
AnswersGiven == [k \in 1..Len(SelectSeq(log, LAMBDA e : e.op = "prompt")) |->
                    SelectSeq(log, LAMBDA e : e.op = "prompt")[k].answer]
DestroyResponses == [k \in 1..Len(SelectSeq(log, LAMBDA e : e.op = "destroy")) |->
                        SelectSeq(log, LAMBDA e : e.op = "destroy")[k].ok]
DestroyCommands == [k \in 1..Len(SelectSeq(log, LAMBDA e : e.op = "destroy")) |->
                       SelectSeq(log, LAMBDA e : e.op = "destroy")[k].from]

\* compact.py, run_compact from its plan on (lines 105-142): what the
\* package asks, the destroys it issues and what it returns, for a deletion
\* plan, the flags, the user's answers and the executor's responses
PackageRun(dps, dry, noconf, answers, responses) ==
    LET all == Flatten(dps, 1)
    IN  IF dps = <<>>
        THEN [prompts |-> 0, commands |-> <<>>, result |-> 0]
        ELSE IF dry
        THEN [prompts |-> 0, commands |-> <<>>, result |-> 0]
        ELSE IF ~noconf /\ (answers = <<>> \/ ~CompactConfirmed(answers[1]))
        THEN [prompts |-> 1, commands |-> <<>>, result |-> 1]
        ELSE [prompts |-> IF noconf THEN 0 ELSE 1,
              commands |-> [k \in 1..Len(all) |-> all[k].snap],
              result |-> IF \E k \in 1..Len(all) :
                                k <= Len(responses) /\ ~responses[k]
                         THEN 1 ELSE 0]

\* what the single-file run has asked, issued and returned
SingleFileRun ==
    [prompts |-> asked, commands |-> DestroyCommands, result |-> result]

\* C39: when run_compact of the single-file distribution has returned, it
\* has prompted the user as often, issued the same destroy commands in the
\* same order and returned the same exit code as run_compact of the package
\* does for the same configuration, pool, flags, answers and responses.
C39_SingleFileIsThePackage ==
    pc = "c_done" =>
        SingleFileRun = PackageRun(delete_plans, dry_run, no_confirm,
                                   AnswersGiven, DestroyResponses)

\* a dry run without no_confirm: the single-file distribution has asked
\* the user, was refused and returned 1, where the package returns 0
\* without a prompt
DryRunPromptRefused ==
    /\ pc = "c_done" /\ dry_run /\ ~no_confirm /\ delete_plans # <<>>
    /\ asked = 1 /\ result = 1 /\ DestroyCommands = <<>>
    /\ PackageRun(delete_plans, dry_run, no_confirm,
                  AnswersGiven, DestroyResponses).result = 0

\* a dry run that is confirmed returns 0 as the package does, with one
\* prompt more
DryRunPromptConfirmed ==
    /\ pc = "c_done" /\ dry_run /\ ~no_confirm /\ delete_plans # <<>>
    /\ asked = 1 /\ result = 0 /\ DestroyCommands = <<>>

\* outside a dry run, and in a dry run with no_confirm, the two agree; in
\* every dry run they issue the same commands, none
SingleFileIsThePackageUnlessDryRunPrompt ==
    pc = "c_done" =>
        /\ (~dry_run \/ no_confirm) =>
               SingleFileRun = PackageRun(delete_plans, dry_run, no_confirm,
                                          AnswersGiven, DestroyResponses)
        /\ SingleFileRun.commands =
               PackageRun(delete_plans, dry_run, no_confirm,
                          AnswersGiven, DestroyResponses).commands

\* a run outside a dry run in which a destroy has failed after another
\* succeeded
RealRunWithFailure ==
    /\ pc = "c_done" /\ ~dry_run /\ result = 1
    /\ \E j, k \in 1..Len(DestroyResponses) :
          DestroyResponses[j] /\ ~DestroyResponses[k]
====
